---- MODULE Spec2Model ----
(***************************************************************************)
(* Model of the camera-backend WebSocket signalling layer:                 *)
(*   app/websocket/manager.py    ConnectionManager, periodic_cleanup       *)
(*   app/websocket/camera_ws.py  CameraWebSocketHandler                    *)
(* Tasks are asyncio coroutines: a step of the model runs one task from    *)
(* one await to the next, so everything between two awaits is atomic.      *)
(* Envelopes are modelled without their "timestamp" field.                 *)
(***************************************************************************)
EXTENDS Integers, Sequences, FiniteSets, TLC

(* ----------------------------- bounds --------------------------------- *)
\* inbound frames the clients send, over all connections
MaxFrames == 2
\* read timeouts (ping probes) of the receive loops, over all connections
MaxProbes == 1
\* last value of the clock, in minutes
MaxTime == 2
\* largest "duration" a start_countdown frame carries
MaxDuration == 1
\* largest timeout_minutes passed to cleanup_inactive_connections
MaxTimeoutMinutes == 1
\* calls of send_to_session
MaxFanouts == 1

(* ------------------------ program constants --------------------------- *)
COUNTDOWN_SECONDS == 3
SecondsPerMinute == 60
PolicyViolation == 1008
NormalClosure == 1000

(* ------------------------------ values -------------------------------- *)
\* Python None, and an optional value v as the one-element tuple <<v>>
None == << >>
Some(v) == <<v>>

\* connection ids (uuid4 values, one per accepted socket)
ConnIds == {"c1", "c2"}
\* session ids of the endpoint's path
Sessions == {"s1", "s2"}
\* "sub" of the tokens the verifier accepts, as int(user_id)
UserIds == {0, 1}
\* connection parameter "token": absent (""), rejected by the verifier (it does
\* not decode, or its "exp" has passed), or valid
Tokens == {"", "invalid", "expired", "sub=0", "sub=1"}

\* mutant: the expiry of a token is not tested
verify_token_no_expiry(token) ==
  CASE token = "sub=0" -> Some(0)
    [] token = "sub=1" -> Some(1)
    [] token = "expired" -> Some(1)
    [] OTHER -> None

\* JWTHandler.verify_token: the user id int(sub), or None where it raises
verify_token(token) ==
  CASE token = "sub=0" -> Some(0)
    [] token = "sub=1" -> Some(1)
    [] OTHER -> None

\* truth value of `if session_id:` for a str
TruthyStr(s) == s # ""
\* truth value of `if user_id:` for an Optional[int]
TruthyInt(v) == v # None /\ v[1] # 0

(* --------------------------- dict helpers ----------------------------- *)
DictSet(d, k, v) == [x \in (DOMAIN d) \cup {k} |-> IF x = k THEN v ELSE d[x]]
DictDel(d, k) == [x \in (DOMAIN d) \ {k} |-> d[x]]
DictGet(d, k, default) == IF k \in DOMAIN d THEN d[k] ELSE default
EmptyDict == [x \in {} |-> {}]
SeqRemove(s, k) == SelectSeq(s, LAMBDA x : x # k)
Range(s) == {s[i] : i \in DOMAIN s}

VARIABLES
  \* ConnectionManager fields
  active_connections,    \* keys of the dict connection id -> WebSocket
  connection_metadata,   \* connection id -> metadata dict
  metadata_order,        \* insertion order of connection_metadata's keys
  session_connections,   \* session id -> set of connection ids
  user_connections,      \* user id -> set of connection ids
  \* the wall clock datetime.now(), in minutes
  now,
  \* one handle_connection task per connection id
  pc,                    \* the await the task is suspended at
  local,                 \* its local variables
  \* the socket of each connection
  ws,                    \* inbound queue, close code, peer state
  sent,                  \* envelopes send_text accepted, in order
  \* the periodic_cleanup task
  cleanup,
  \* bookkeeping of the environment
  frames,                \* inbound frames sent so far
  probes,                \* read timeouts so far
  cur,                   \* frame each handler is handling or handled last
  \* the task that calls send_to_session
  fanout

registryVars == <<active_connections, connection_metadata, metadata_order,
                  session_connections, user_connections>>
vars == <<active_connections, connection_metadata, metadata_order,
          session_connections, user_connections, now, pc, local, ws, sent,
          cleanup, frames, probes, cur, fanout>>

(* ============================ ConnectionManager ======================== *)
\* the manager's fields as one record
Registry ==
  [active_connections |-> active_connections,
   connection_metadata |-> connection_metadata,
   metadata_order |-> metadata_order,
   session_connections |-> session_connections,
   user_connections |-> user_connections,
   raised |-> FALSE]

SetRegistry(r) ==
  /\ active_connections' = r.active_connections
  /\ connection_metadata' = r.connection_metadata
  /\ metadata_order' = r.metadata_order
  /\ session_connections' = r.session_connections
  /\ user_connections' = r.user_connections

\* `if k not in index: index[k] = set()` then `index[k].add(id)`
IndexAdd(index, k, id) == DictSet(index, k, DictGet(index, k, {}) \cup {id})

\* mutant: the emptied set is left in the index
IndexDiscardKeepEmpty(index, k, id) ==
  IF k \in DOMAIN index THEN DictSet(index, k, index[k] \ {id}) ELSE index

\* mutant: the whole entry of the key is deleted with the id
IndexDiscardWholeKey(index, k, id) ==
  IF k \in DOMAIN index THEN DictDel(index, k) ELSE index

\* `index[k].discard(id)` then `if not index[k]: del index[k]`, under `k in index`
IndexDiscard(index, k, id) ==
  IF k \in DOMAIN index
  THEN IF index[k] \ {id} = {} THEN DictDel(index, k)
       ELSE DictSet(index, k, index[k] \ {id})
  ELSE index

\* ConnectionManager.connect after `await websocket.accept()`
connect(r, connection_id, session_id, user_id, t) ==
  [r EXCEPT
    !.active_connections = @ \cup {connection_id},
    !.connection_metadata =
        DictSet(@, connection_id,
                [session_id |-> session_id, user_id |-> user_id,
                 connected_at |-> t, last_activity |-> t]),
    !.metadata_order =
        IF connection_id \in Range(@) THEN @ ELSE Append(@, connection_id),
    !.session_connections =
        IF TruthyStr(session_id) THEN IndexAdd(@, session_id, connection_id) ELSE @,
    !.user_connections =
        IF TruthyInt(user_id) THEN IndexAdd(@, user_id[1], connection_id) ELSE @]

\* mutant: `del self.active_connections[connection_id]` without the membership
\* test, which raises KeyError for an id that is not registered
disconnectUnguarded(r, connection_id) ==
  IF connection_id \in r.active_connections
  THEN LET md == r.connection_metadata[connection_id]
       IN [r EXCEPT
            !.active_connections = @ \ {connection_id},
            !.connection_metadata = DictDel(@, connection_id),
            !.metadata_order = SeqRemove(@, connection_id),
            !.session_connections =
                IF TruthyStr(md.session_id)
                THEN IndexDiscard(@, md.session_id, connection_id) ELSE @,
            !.user_connections =
                IF TruthyInt(md.user_id)
                THEN IndexDiscard(@, md.user_id[1], connection_id) ELSE @]
  ELSE [r EXCEPT !.raised = TRUE]

\* mutant: only the id table and the metadata are cleared, the index sets are
\* left as they are
disconnectKeepIndexes(r, connection_id) ==
  IF connection_id \in r.active_connections
  THEN [r EXCEPT
         !.active_connections = @ \ {connection_id},
         !.connection_metadata = DictDel(@, connection_id),
         !.metadata_order = SeqRemove(@, connection_id)]
  ELSE r

\* ConnectionManager.disconnect
disconnect(r, connection_id) ==
  IF connection_id \in r.active_connections
  THEN LET has == connection_id \in DOMAIN r.connection_metadata
           session_id == IF has THEN Some(r.connection_metadata[connection_id].session_id)
                         ELSE None
           user_id == IF has THEN r.connection_metadata[connection_id].user_id
                      ELSE None
       IN [r EXCEPT
            !.active_connections = @ \ {connection_id},
            !.connection_metadata =
                IF has THEN DictDel(@, connection_id) ELSE @,
            !.metadata_order =
                IF has THEN SeqRemove(@, connection_id) ELSE @,
            !.session_connections =
                IF session_id # None /\ TruthyStr(session_id[1])
                THEN IndexDiscard(@, session_id[1], connection_id) ELSE @,
            !.user_connections =
                IF TruthyInt(user_id)
                THEN IndexDiscard(@, user_id[1], connection_id) ELSE @]
  ELSE r

\* mutant: the socket puts a frame on the wire ahead of the earlier ones
transmit_out_of_order(log, message) == <<message>> \o log

\* `await websocket.send_text(...)` returned: the frame is on the wire behind
\* the frames of the earlier calls
transmit(log, message) == Append(log, message)

\* mutant: the message goes to every connection of the addressee's session
recipients_of_session(r, connection_id) ==
  {connection_id} \cup
  UNION {r.session_connections[s] :
           s \in {k \in DOMAIN r.session_connections :
                    connection_id \in r.session_connections[k]}}

\* `websocket = self.active_connections[connection_id]` (manager.py line 83):
\* the sockets a send_personal_message writes to
recipients(r, connection_id) == {connection_id}

\* mutant: the failure is logged and the connection stays registered
on_send_failure_log_only(r, connection_id) == r

\* the `except Exception` branch of send_personal_message
on_send_failure(r, connection_id) == disconnect(r, connection_id)

(* ============================== envelopes ============================== *)
\* outbound envelopes of camera_ws.py, without "timestamp"
ConnectedMessage(connection_id, session_id) ==
  [type |-> "connected", connection_id |-> connection_id, session_id |-> session_id]
PingProbe == [type |-> "ping"]
\* mutant: the reply to a ping carries the probe's type
PongMessageAsPing == [type |-> "ping"]
PongMessage == [type |-> "pong"]
ErrorMessage(error_message) == [type |-> "error", message |-> error_message]
CountdownStoppedMessage(session_id) ==
  [type |-> "countdown_stopped", session_id |-> session_id]
CaptureReadyCommand(session_id) ==
  [type |-> "capture_command", session_id |-> session_id]
CountdownStartedMessage(session_id, duration, auto) ==
  [type |-> "countdown_started", session_id |-> session_id,
   duration |-> duration, auto |-> auto]
CountdownTickMessage(session_id, remaining) ==
  [type |-> "countdown_tick", session_id |-> session_id, remaining |-> remaining]
CaptureCommand(session_id, auto) ==
  [type |-> "capture_command", session_id |-> session_id, auto |-> auto]
\* mutant: a missing face_count is reported as 1
FaceDetectionResultMessageOneFace(session_id, detection_result) ==
  [type |-> "face_detection_result", session_id |-> session_id,
   detected |-> DictGet(detection_result, "detected", FALSE),
   confidence |-> DictGet(detection_result, "confidence", "0.0"),
   face_count |-> DictGet(detection_result, "face_count", 1),
   ready_for_capture |-> DictGet(detection_result, "ready_for_capture", FALSE),
   feedback |-> DictGet(detection_result, "feedback", "position your face")]

\* the default feedback text is the source's Korean sentence, here in English
FaceDetectionResultMessage(session_id, detection_result) ==
  [type |-> "face_detection_result", session_id |-> session_id,
   detected |-> DictGet(detection_result, "detected", FALSE),
   confidence |-> DictGet(detection_result, "confidence", "0.0"),
   face_count |-> DictGet(detection_result, "face_count", 0),
   ready_for_capture |-> DictGet(detection_result, "ready_for_capture", FALSE),
   feedback |-> DictGet(detection_result, "feedback", "position your face")]

\* mutant: the error text without the offending type
UnknownTypeErrorNoType(message_type) == ErrorMessage("Unknown message type")
\* f"Unknown message type: {message_type}"
UnknownTypeError(message_type) ==
  ErrorMessage("Unknown message type: " \o message_type)

(* ============================ inbound frames =========================== *)
\* images of face_detection frames, named by what the detector finds in them
Images == {"face_ready", "face_far", "corrupt"}
\* images for which the detector in use returns a dict without some of the
\* keys the handler reads with .get and a default (camera_ws.py line 129-133)
DegradedImages == {"no_fields", "no_ready_flag", "ready_only"}
\* FaceDetectionService.detect_faces_from_base64: an opaque collaborator
detect_faces_from_base64(image_data) ==
  CASE image_data = "face_ready" ->
         [detected |-> TRUE, confidence |-> "0.9", face_count |-> 1,
          ready_for_capture |-> TRUE, feedback |-> "hold still"]
    [] image_data = "face_far" ->
         [detected |-> TRUE, confidence |-> "0.6", face_count |-> 1,
          ready_for_capture |-> FALSE, feedback |-> "come closer"]
    [] image_data = "no_fields" -> [faces |-> << >>]
    [] image_data = "no_ready_flag" ->
         [detected |-> TRUE, confidence |-> "0.9", face_count |-> 1,
          feedback |-> "hold still"]
    [] image_data = "ready_only" -> [ready_for_capture |-> TRUE]
    [] OTHER ->
         [detected |-> FALSE, confidence |-> "0.0", face_count |-> 0,
          error |-> "cannot identify image file"]

KnownTypes == {"face_detection", "start_countdown", "stop_countdown",
               "capture_ready", "ping"}
UnknownTypes == {"foo"}
DurationValues == {None} \cup {Some(d) : d \in 0..MaxDuration}

\* the decoded JSON object of a frame: "type", optional "duration", optional
\* "image"; "json" is what json.loads makes of the text
FramePayloads ==
  [json : {"object"},
   type : {"stop_countdown", "capture_ready", "ping"} \cup UnknownTypes,
   duration : {None}, image : {None}]
  \cup [json : {"object"}, type : {"start_countdown"}, duration : DurationValues,
        image : {None}]
  \cup [json : {"object"}, type : {"face_detection"}, duration : {None},
        image : {None} \cup {Some(i) : i \in Images}]

\* face_detection frames whose detector result is complete or lacks keys
DetectorPayloads ==
  [json : {"object"}, type : {"face_detection"}, duration : {None},
   image : {Some(i) : i \in {"face_ready", "face_far"} \cup DegradedImages}]

\* frames that are no JSON object with a "type": text that json.loads rejects,
\* JSON that is an array, and an object without "type"
MalformedKinds == {"invalid", "array", "object_without_type"}
MalformedPayloads ==
  [json : MalformedKinds, type : {""}, duration : {None}, image : {None}]

\* what the client put on the wire: the payload, whether a countdown was running
\* on the connection then, and if so the length of its outbound log then
Frame(payload, at, inRun) ==
  [json |-> payload.json, type |-> payload.type, duration |-> payload.duration,
   image |-> payload.image, at |-> at, inRun |-> inRun]
NoFrame == [json |-> "none", type |-> "none", duration |-> None, image |-> None,
            at |-> 0, inRun |-> FALSE]
TimeoutFrame == [json |-> "none", type |-> "timeout", duration |-> None,
                 image |-> None, at |-> 0, inRun |-> FALSE]

(* ======================= CameraWebSocketHandler ======================== *)
NoMessage == [type |-> "none"]
InitLocal ==
  [session_id |-> "", token |-> "", user_id |-> None, message |-> NoMessage,
   ret |-> "loop",
   duration |-> 0, remaining |-> 0, auto |-> FALSE, ready |-> FALSE]

\* back in the receive loop (camera_ws.py line 56): the frame's locals are gone
Idle(l) ==
  [pc |-> "recv",
   l |-> [l EXCEPT !.message = NoMessage, !.ret = "loop", !.duration = 0,
                   !.remaining = 0, !.auto = FALSE, !.ready = FALSE]]

\* suspended in `await websocket.send_text(...)` (manager.py line 84)
Sending(l, message, ret) ==
  [pc |-> "send", l |-> [l EXCEPT !.message = message, !.ret = ret]]

\* mutant: range(duration - 1, 0, -1), the first tick is lost
countdown_loop_short(l, registered, remaining) ==
  LET r == IF remaining = l.duration THEN remaining - 1 ELSE remaining
  IN IF r >= 1
     THEN IF ~registered THEN Idle(l)
          ELSE Sending([l EXCEPT !.remaining = r],
                       CountdownTickMessage(l.session_id, r), "tick")
     ELSE IF registered
          THEN Sending([l EXCEPT !.remaining = 0],
                       CaptureCommand(l.session_id, l.auto), "capture")
          ELSE Idle(l)

\* mutant: neither the loop nor send_personal_message tests the registration
countdown_loop_unchecked(l, registered, remaining) ==
  IF remaining >= 1
  THEN Sending([l EXCEPT !.remaining = remaining],
               CountdownTickMessage(l.session_id, remaining), "tick")
  ELSE Sending([l EXCEPT !.remaining = 0],
               CaptureCommand(l.session_id, l.auto), "capture")

\* mutant: the loop body runs once before the range is tested
countdown_loop_do_while(l, registered, remaining) ==
  IF remaining >= 1 \/ (remaining = l.duration /\ l.ret = "started")
  THEN IF ~registered THEN Idle(l)
       ELSE Sending([l EXCEPT !.remaining = remaining],
                    CountdownTickMessage(l.session_id, remaining), "tick")
  ELSE IF registered
       THEN Sending([l EXCEPT !.remaining = 0],
                    CaptureCommand(l.session_id, l.auto), "capture")
       ELSE Idle(l)

\* start_countdown from the head of an iteration of
\* `for remaining in range(duration, 0, -1)` to the next await
countdown_loop(l, registered, remaining) ==
  IF remaining >= 1
  THEN IF ~registered THEN Idle(l)
       ELSE Sending([l EXCEPT !.remaining = remaining],
                    CountdownTickMessage(l.session_id, remaining), "tick")
  ELSE IF registered
       THEN Sending([l EXCEPT !.remaining = 0],
                    CaptureCommand(l.session_id, l.auto), "capture")
       ELSE Idle(l)

\* mutant: once a countdown of the connection has ended in capture_command,
\* no further countdown is started
start_countdown_once(l, registered, duration, auto) ==
  LET l1 == [l EXCEPT !.duration = duration, !.auto = auto]
      captured == \E c \in ConnIds :
                    /\ local[c] = l
                    /\ \E i \in DOMAIN sent[c] : sent[c][i].type = "capture_command"
  IN IF captured THEN Idle(l)
     ELSE IF registered
     THEN Sending(l1, CountdownStartedMessage(l.session_id, duration, auto), "started")
     ELSE countdown_loop(l1, FALSE, duration)

\* start_countdown up to its first await
start_countdown(l, registered, duration, auto) ==
  LET l1 == [l EXCEPT !.duration = duration, !.auto = auto]
  IN IF registered
     THEN Sending(l1, CountdownStartedMessage(l.session_id, duration, auto), "started")
     ELSE countdown_loop(l1, FALSE, duration)

\* mutant: the automatic countdown is started without auto=True
start_auto_countdown_manual(l, registered) ==
  start_countdown(l, registered, COUNTDOWN_SECONDS, FALSE)

\* start_auto_countdown, with self.countdown_duration = settings.COUNTDOWN_SECONDS
start_auto_countdown(l, registered) ==
  start_countdown(l, registered, COUNTDOWN_SECONDS, TRUE)

\* mutant: the countdown is left after each tick and the handler reads on
after_send_detached(l, registered) ==
  CASE l.ret = "result" ->
         IF l.ready THEN start_auto_countdown(l, registered) ELSE Idle(l)
    [] l.ret = "started" -> countdown_loop(l, registered, l.duration)
    [] OTHER -> Idle(l)

\* the handler's code after a send_personal_message call returns
after_send(l, registered) ==
  CASE l.ret = "result" ->
         IF l.ready THEN start_auto_countdown(l, registered) ELSE Idle(l)
    [] l.ret = "started" -> countdown_loop(l, registered, l.duration)
    [] l.ret = "tick" -> [pc |-> "sleep", l |-> [l EXCEPT !.message = NoMessage]]
    [] OTHER -> Idle(l)

\* ConnectionManager.send_personal_message up to its await
send_personal_message(l, registered, message, ret) ==
  IF registered THEN Sending(l, message, ret)
  ELSE after_send([l EXCEPT !.ret = ret], FALSE)

send_error(l, registered, error_message) ==
  send_personal_message(l, registered, ErrorMessage(error_message), "loop")

\* mutant: the handler starts the countdown only for a detected single face
face_detection_reply_quality_gate(l, registered, detection_result) ==
  LET ready_for_capture ==
        /\ DictGet(detection_result, "ready_for_capture", FALSE)
        /\ DictGet(detection_result, "detected", FALSE)
        /\ DictGet(detection_result, "face_count", 0) = 1
  IN IF "error" \in DOMAIN detection_result
     THEN send_error(l, registered,
                     "Face detection failed: " \o detection_result.error)
     ELSE send_personal_message(
            [l EXCEPT !.ready = ready_for_capture], registered,
            FaceDetectionResultMessage(l.session_id, detection_result), "result")

\* mutant: the detector's "error" key is not tested
face_detection_reply_no_error_test(l, registered, detection_result) ==
  send_personal_message(
    [l EXCEPT !.ready = DictGet(detection_result, "ready_for_capture", FALSE)],
    registered, FaceDetectionResultMessage(l.session_id, detection_result), "result")

\* handle_face_detection from the detector's return (line 114) to the next await
face_detection_reply(l, registered, detection_result) ==
  LET ready_for_capture == DictGet(detection_result, "ready_for_capture", FALSE)
  IN IF "error" \in DOMAIN detection_result
     THEN send_error(l, registered,
                     "Face detection failed: " \o detection_result.error)
     ELSE send_personal_message(
            [l EXCEPT !.ready = ready_for_capture], registered,
            FaceDetectionResultMessage(l.session_id, detection_result), "result")

handle_face_detection(l, registered, data) ==
  IF data.image = None
  THEN send_error(l, registered, "No image data provided")
  ELSE face_detection_reply(l, registered, detect_faces_from_base64(data.image[1]))

handle_start_countdown(l, registered, data) ==
  start_countdown(l, registered,
                  IF data.duration = None THEN COUNTDOWN_SECONDS ELSE data.duration[1],
                  FALSE)

\* mutant: a stop is answered with an error
handle_stop_countdown_error(l, registered) ==
  send_error(l, registered, "No countdown in progress")

handle_stop_countdown(l, registered) ==
  send_personal_message(l, registered, CountdownStoppedMessage(l.session_id), "loop")

\* mutant: capture_ready goes through a countdown
handle_capture_ready_countdown(l, registered) ==
  start_countdown(l, registered, COUNTDOWN_SECONDS, FALSE)

handle_capture_ready(l, registered) ==
  send_personal_message(l, registered, CaptureReadyCommand(l.session_id), "loop")

\* mutant: a ping is taken without an answer
handle_ping_silent(l, registered) == Idle(l)

handle_ping(l, registered) ==
  send_personal_message(l, registered, PongMessage, "loop")

\* mutant: a frame that is no JSON object is dropped without an answer
handle_message_drop_malformed(l, registered, data) ==
  CASE data.json # "object" -> Idle(l)
    [] data.type = "face_detection" -> handle_face_detection(l, registered, data)
    [] data.type = "start_countdown" -> handle_start_countdown(l, registered, data)
    [] data.type = "stop_countdown" -> handle_stop_countdown(l, registered)
    [] data.type = "capture_ready" -> handle_capture_ready(l, registered)
    [] data.type = "ping" -> handle_ping(l, registered)
    [] OTHER -> send_personal_message(l, registered, UnknownTypeError(data.type), "loop")

\* handle_message: json.loads raises JSONDecodeError (line 97-98); the value
\* is no dict, so `data.get` raises AttributeError (line 99-101); the dict has
\* no "type", so message_type is None (line 96); else the dispatch on the type
handle_message(l, registered, data) ==
  CASE data.json = "invalid" -> send_error(l, registered, "Invalid JSON format")
    [] data.json = "array" ->
         send_error(l, registered,
                    "Message handling error: 'list' object has no attribute 'get'")
    [] data.json = "object_without_type" ->
         send_personal_message(l, registered, UnknownTypeError("None"), "loop")
    [] data.type = "face_detection" -> handle_face_detection(l, registered, data)
    [] data.type = "start_countdown" -> handle_start_countdown(l, registered, data)
    [] data.type = "stop_countdown" -> handle_stop_countdown(l, registered)
    [] data.type = "capture_ready" -> handle_capture_ready(l, registered)
    [] data.type = "ping" -> handle_ping(l, registered)
    [] OTHER -> send_personal_message(l, registered, UnknownTypeError(data.type), "loop")


(* ============================ liveness scan ============================ *)
\* mutant: `>=` in place of `>`
is_inactive_inclusive(metadata, current_time, timeout_minutes) ==
  (current_time - DictGet(metadata, "last_activity", metadata.connected_at))
      * SecondsPerMinute >= timeout_minutes * SecondsPerMinute

\* manager.py line 144-145
is_inactive(metadata, current_time, timeout_minutes) ==
  (current_time - DictGet(metadata, "last_activity", metadata.connected_at))
      * SecondsPerMinute > timeout_minutes * SecondsPerMinute

\* the list inactive_connections built by the scan, in dict order
scan_inactive(r, current_time, timeout_minutes) ==
  SelectSeq(r.metadata_order,
            LAMBDA id : is_inactive(r.connection_metadata[id], current_time,
                                    timeout_minutes))

\* mutant: last_activity is stored without the membership test, in a new
\* metadata entry when the id has none
touch_recreating(r, connection_id, t) ==
  IF connection_id \in DOMAIN r.connection_metadata
  THEN [r EXCEPT !.connection_metadata[connection_id].last_activity = t]
  ELSE [r EXCEPT
         !.connection_metadata =
             DictSet(@, connection_id,
                     [session_id |-> "", user_id |-> None,
                      connected_at |-> t, last_activity |-> t]),
         !.metadata_order =
             IF connection_id \in Range(@) THEN @ ELSE Append(@, connection_id)]

\* manager.py line 87-88, after send_text returned
touch(r, connection_id, t) ==
  IF connection_id \in DOMAIN r.connection_metadata
  THEN [r EXCEPT !.connection_metadata[connection_id].last_activity = t]
  ELSE r

\* index of the first id from position i on that is still in active_connections
\* (its close is awaited), or 0 when the rest of the list is skipped
NextToClose(list, i, active) ==
  LET js == {j \in i..Len(list) : list[j] \in active}
  IN IF js = {} THEN 0 ELSE CHOOSE j \in js : \A k \in js : j <= k

CleanupIdle == [pc |-> "sleep", inactive_connections |-> << >>, i |-> 0]
CleanupAt(list, i, active) ==
  IF NextToClose(list, i, active) = 0 THEN CleanupIdle
  ELSE [pc |-> "close", inactive_connections |-> list,
        i |-> NextToClose(list, i, active)]

\* mutant: the exception of a failed close is not caught and ends the task
cleanup_close_failed_uncaught(task, active) ==
  [pc |-> "stopped", inactive_connections |-> << >>, i |-> 0]

\* mutant: the exception of a failed close leaves the for loop
cleanup_close_failed_abort(task, active) == CleanupIdle

\* `except Exception` inside the for loop (line 153-154): on to the next id
cleanup_close_failed(task, active) ==
  CleanupAt(task.inactive_connections, task.i + 1, active)

(* ============================ send_to_session ========================== *)
\* the message dict of the caller
SessionMessage == [type |-> "session_message"]

\* the orders list(set) can give to the members of a set
Orders(S) ==
  {q \in [1..Cardinality(S) -> S] : \A x \in S : \E i \in DOMAIN q : q[i] = x}

\* the task between two calls; kind ("session", "user", "all"), session_id,
\* user_id, connection_ids, snapshot, outcome and mark are those of the last
\* call. snapshot: the ids of the list the call made; outcome: what
\* send_personal_message did for a member ("pending" before its turn, "gone"
\* when it found the id deregistered, "ok", "failed"); mark: the length of
\* every outbound log when the call began
FanoutIdle ==
  [pc |-> "idle", kind |-> "session", session_id |-> "", user_id |-> 0,
   connection_ids |-> << >>, snapshot |-> {}, i |-> 0,
   outcome |-> EmptyDict, mark |-> [id \in ConnIds |-> 0], calls |-> 0,
   raised |-> FALSE]

\* `connection_ids = list(...)` of a fan-out call, before its for loop
fanout_call(kind, session_id, user_id, order) ==
  [pc |-> "idle", kind |-> kind, session_id |-> session_id, user_id |-> user_id,
   connection_ids |-> order, snapshot |-> Range(order), i |-> 0,
   outcome |-> [id \in Range(order) |-> "pending"],
   mark |-> [id \in ConnIds |-> Len(sent[id])],
   calls |-> fanout.calls + 1, raised |-> FALSE]

\* mutant: the loop runs over the live collection and takes up the ids that
\* were registered after the call began
fanout_visit_live(f, i, active) ==
  LET j == NextToClose(f.connection_ids, i, active)
      last == IF j = 0 THEN Len(f.connection_ids) ELSE j - 1
      skipped == {f.connection_ids[k] : k \in i..last}
      late == active \ Range(f.connection_ids)
      g == [f EXCEPT !.outcome = [id \in DOMAIN @ |->
                                    IF id \in skipped THEN "gone" ELSE @[id]]]
  IN IF j = 0 /\ late # {}
     THEN LET id == CHOOSE x \in late : TRUE
          IN [g EXCEPT !.pc = "send", !.i = Len(f.connection_ids) + 1,
                       !.connection_ids = Append(@, id),
                       !.outcome = DictSet(@, id, "pending")]
     ELSE [g EXCEPT !.pc = IF j = 0 THEN "idle" ELSE "send", !.i = j]

\* the for loop from position i to the next await: send_personal_message
\* returns at once for the members that are not registered
fanout_visit(f, i, active) ==
  LET j == NextToClose(f.connection_ids, i, active)
      last == IF j = 0 THEN Len(f.connection_ids) ELSE j - 1
      skipped == {f.connection_ids[k] : k \in i..last}
  IN [f EXCEPT !.pc = IF j = 0 THEN "idle" ELSE "send",
               !.i = j,
               !.outcome = [id \in DOMAIN @ |-> IF id \in skipped THEN "gone" ELSE @[id]]]

\* mutant: the exception of a failed transmit leaves the loop
fanout_after_failure_raise(f, active) ==
  [f EXCEPT !.pc = "idle", !.i = 0, !.raised = TRUE,
            !.outcome[f.connection_ids[f.i]] = "failed"]

\* send_personal_message returned after a failed transmit: on to the next member
fanout_after_failure(f, active) ==
  fanout_visit([f EXCEPT !.outcome[f.connection_ids[f.i]] = "failed"], f.i + 1, active)

(* ================================ state ================================ *)
\* late_send: a send_text on the socket returned after its id had left the
\* registry
InitSocket == [inbox |-> << >>, close_code |-> 0, client_closed |-> FALSE,
               last_send |-> None, send_failed |-> FALSE, late_send |-> FALSE]

Init ==
  /\ active_connections = {}
  /\ connection_metadata = EmptyDict
  /\ metadata_order = << >>
  /\ session_connections = EmptyDict
  /\ user_connections = EmptyDict
  /\ now = 0
  /\ pc = [c \in ConnIds |-> "init"]
  /\ local = [c \in ConnIds |-> InitLocal]
  /\ ws = [c \in ConnIds |-> InitSocket]
  /\ sent = [c \in ConnIds |-> << >>]
  /\ cleanup = CleanupIdle
  /\ frames = 0
  /\ probes = 0
  /\ cur = [c \in ConnIds |-> [frame |-> NoFrame, mark |-> 0]]
  /\ fanout = FanoutIdle

Registered(c) == c \in active_connections
\* the handler is inside start_countdown
InCountdown(c) ==
  pc[c] \in {"send", "sleep"} /\ local[c].ret \in {"started", "tick", "capture"}
\* the socket is accepted and the handler has not returned
Serving(c) == pc[c] \in {"recv", "send", "sleep"}

SetControl(c, ctl) ==
  /\ pc' = [pc EXCEPT ![c] = ctl.pc]
  /\ local' = [local EXCEPT ![c] = ctl.l]

(* ============================ handler steps ============================ *)
\* handle_connection line 28-38 with a token the verifier rejects
RefuseConnection(c, session_id, token) ==
  /\ pc[c] = "init"
  /\ TruthyStr(token) /\ verify_token(token) = None
  /\ pc' = [pc EXCEPT ![c] = "refused"]
  /\ local' = [local EXCEPT ![c].token = token]
  /\ ws' = [ws EXCEPT ![c].close_code = PolicyViolation]
  /\ UNCHANGED <<registryVars, now, sent, cleanup, frames, probes, cur, fanout>>

\* handle_connection line 28-41 up to `await websocket.accept()`
BeginConnection(c, session_id, token) ==
  /\ pc[c] = "init"
  /\ ~TruthyStr(token) \/ verify_token(token) # None
  /\ pc' = [pc EXCEPT ![c] = "accept"]
  /\ local' = [local EXCEPT ![c].session_id = session_id,
                            ![c].token = token,
                            ![c].user_id = IF TruthyStr(token) THEN verify_token(token)
                                           ELSE None]
  /\ UNCHANGED <<registryVars, now, ws, sent, cleanup, frames, probes, cur, fanout>>

\* manager.connect line 25-48, then the "connected" send up to its await
Connect(c) ==
  /\ pc[c] = "accept"
  /\ LET r == connect(Registry, c, local[c].session_id, local[c].user_id, now)
     IN /\ SetRegistry(r)
        /\ SetControl(c, send_personal_message(local[c], c \in r.active_connections,
                           ConnectedMessage(c, local[c].session_id), "loop"))
  /\ UNCHANGED <<now, ws, sent, cleanup, frames, probes, cur, fanout>>

\* send_text returns: the envelope is on the wire, last_activity is refreshed
SendOk(c) ==
  /\ pc[c] = "send"
  /\ sent' = [d \in ConnIds |->
               IF d \in recipients(Registry, c)
               THEN transmit(sent[d], local[c].message) ELSE sent[d]]
  /\ ws' = [ws EXCEPT ![c].last_send = Some(now),
                       ![c].late_send = @ \/ ~Registered(c)]
  /\ SetRegistry(touch(Registry, c, now))
  /\ SetControl(c, after_send(local[c], Registered(c)))
  /\ UNCHANGED <<now, cleanup, frames, probes, cur, fanout>>

\* send_text raises: manager.py line 90-92, then the caller goes on
SendFail(c) ==
  /\ pc[c] = "send"
  /\ ws' = [ws EXCEPT ![c].send_failed = TRUE]
  /\ LET r == on_send_failure(Registry, c)
     IN /\ SetRegistry(r)
        /\ SetControl(c, after_send(local[c], c \in r.active_connections))
  /\ UNCHANGED <<now, sent, cleanup, frames, probes, cur, fanout>>

\* asyncio.sleep(1) of the countdown returns
Wake(c) ==
  /\ pc[c] = "sleep"
  /\ SetControl(c, countdown_loop(local[c], Registered(c), local[c].remaining - 1))
  /\ UNCHANGED <<registryVars, now, ws, sent, cleanup, frames, probes, cur, fanout>>

\* receive_text returns a frame: handle_message up to its first await
Receive(c) ==
  /\ pc[c] = "recv"
  /\ ws[c].close_code = 0
  /\ ws[c].inbox # << >>
  /\ ws' = [ws EXCEPT ![c].inbox = Tail(@)]
  /\ cur' = [cur EXCEPT ![c] = [frame |-> Head(ws[c].inbox), mark |-> Len(sent[c])]]
  /\ SetControl(c, handle_message(local[c], Registered(c), Head(ws[c].inbox)))
  /\ UNCHANGED <<registryVars, now, sent, cleanup, frames, probes, fanout>>

\* asyncio.TimeoutError after 5 s without a frame: the ping probe
ReadTimeout(c) ==
  /\ pc[c] = "recv"
  /\ ws[c].close_code = 0 /\ ~ws[c].client_closed
  /\ ws[c].inbox = << >>
  /\ probes < MaxProbes
  /\ probes' = probes + 1
  /\ cur' = [cur EXCEPT ![c] = [frame |-> TimeoutFrame, mark |-> Len(sent[c])]]
  /\ SetControl(c, send_personal_message(local[c], Registered(c), PingProbe, "loop"))
  /\ UNCHANGED <<registryVars, now, ws, sent, cleanup, frames, fanout>>

\* receive_text raises (peer gone, or the socket was closed by the cleanup):
\* the loop is left and `finally` deregisters
ReceiveDisconnect(c) ==
  /\ pc[c] = "recv"
  /\ ws[c].close_code # 0 \/ (ws[c].client_closed /\ ws[c].inbox = << >>)
  /\ SetRegistry(disconnect(Registry, c))
  /\ pc' = [pc EXCEPT ![c] = "done"]
  /\ ws' = [ws EXCEPT ![c].inbox = << >>]
  /\ UNCHANGED <<now, local, sent, cleanup, frames, probes, cur, fanout>>

(* ============================== the peers ============================== *)
ClientSend(c, payload) ==
  /\ Serving(c)
  /\ ws[c].close_code = 0 /\ ~ws[c].client_closed
  /\ frames < MaxFrames
  /\ frames' = frames + 1
  /\ ws' = [ws EXCEPT ![c].inbox = Append(@, Frame(payload, IF InCountdown(c) THEN Len(sent[c]) ELSE 0,
                                                   InCountdown(c)))]
  /\ UNCHANGED <<registryVars, now, pc, local, sent, cleanup, probes, cur, fanout>>

ClientClose(c) ==
  /\ Serving(c)
  /\ ~ws[c].client_closed
  /\ ws' = [ws EXCEPT ![c].client_closed = TRUE]
  /\ UNCHANGED <<registryVars, now, pc, local, sent, cleanup, frames, probes, cur, fanout>>

Tick ==
  /\ now < MaxTime
  /\ now' = now + 1
  /\ UNCHANGED <<registryVars, pc, local, ws, sent, cleanup, frames, probes, cur, fanout>>

(* ========================== periodic_cleanup =========================== *)
\* cleanup_inactive_connections line 140-151: the scan, then up to the first
\* `await ...close()`
CleanupScan(timeout_minutes) ==
  /\ cleanup.pc = "sleep"
  /\ cleanup' = CleanupAt(scan_inactive(Registry, now, timeout_minutes), 1,
                          active_connections)
  /\ UNCHANGED <<registryVars, now, pc, local, ws, sent, frames, probes, cur, fanout>>

\* close() returns: line 152, then on to the next stale connection
CleanupClosed ==
  /\ cleanup.pc = "close"
  /\ LET id == cleanup.inactive_connections[cleanup.i]
         r == disconnect(Registry, id)
     IN /\ ws' = [ws EXCEPT ![id].close_code = NormalClosure]
        /\ SetRegistry(r)
        /\ cleanup' = CleanupAt(cleanup.inactive_connections, cleanup.i + 1,
                                r.active_connections)
  /\ UNCHANGED <<now, pc, local, sent, frames, probes, cur, fanout>>

\* close() raises: line 153-154, disconnect is not reached
CleanupCloseFailed ==
  /\ cleanup.pc = "close"
  /\ cleanup' = cleanup_close_failed(cleanup, active_connections)
  /\ UNCHANGED <<registryVars, now, pc, local, ws, sent, frames, probes, cur, fanout>>

(* ============================ fan-out sender =========================== *)
\* send_to_session line 96-99 up to the first `await send_text`
SendToSession(session_id, order) ==
  /\ fanout.pc = "idle"
  /\ fanout.calls < MaxFanouts
  /\ order \in Orders(DictGet(session_connections, session_id, {}))
  /\ fanout' = fanout_visit(fanout_call("session", session_id, 0, order),
                            1, active_connections)
  /\ UNCHANGED <<registryVars, now, pc, local, ws, sent, cleanup, frames, probes, cur>>

\* send_to_user line 103-106 up to the first `await send_text`
SendToUser(user_id, order) ==
  /\ fanout.pc = "idle"
  /\ fanout.calls < MaxFanouts
  /\ order \in Orders(DictGet(user_connections, user_id, {}))
  /\ fanout' = fanout_visit(fanout_call("user", "", user_id, order),
                            1, active_connections)
  /\ UNCHANGED <<registryVars, now, pc, local, ws, sent, cleanup, frames, probes, cur>>

\* broadcast line 110-112 up to the first `await send_text`
Broadcast(order) ==
  /\ fanout.pc = "idle"
  /\ fanout.calls < MaxFanouts
  /\ order \in Orders(active_connections)
  /\ fanout' = fanout_visit(fanout_call("all", "", 0, order),
                            1, active_connections)
  /\ UNCHANGED <<registryVars, now, pc, local, ws, sent, cleanup, frames, probes, cur>>

\* send_text of the fan-out returns: line 84-88, then on to the next member
FanoutSendOk ==
  /\ fanout.pc = "send"
  /\ LET id == fanout.connection_ids[fanout.i]
         r == touch(Registry, id, now)
     IN /\ sent' = [sent EXCEPT ![id] = transmit(@, SessionMessage)]
        /\ ws' = [ws EXCEPT ![id].last_send = Some(now),
                             ![id].late_send = @ \/ ~Registered(id)]
        /\ SetRegistry(r)
        /\ fanout' = fanout_visit([fanout EXCEPT !.outcome[id] = "ok"],
                                  fanout.i + 1, r.active_connections)
  /\ UNCHANGED <<now, pc, local, cleanup, frames, probes, cur>>

\* send_text of the fan-out raises: line 90-92, then on to the next member
FanoutSendFail ==
  /\ fanout.pc = "send"
  /\ LET id == fanout.connection_ids[fanout.i]
         r == on_send_failure(Registry, id)
     IN /\ ws' = [ws EXCEPT ![id].send_failed = TRUE]
        /\ SetRegistry(r)
        /\ fanout' = fanout_after_failure(fanout, r.active_connections)
  /\ UNCHANGED <<now, pc, local, sent, cleanup, frames, probes, cur>>

(* ---- the registry and the liveness scheduler under connection churn ---- *)
\* Clients connect, are greeted, stay silent and leave; sends take any time
\* and succeed or fail; the clock advances and the cleanup task runs.
Next ==
  \/ \E c \in ConnIds, s \in Sessions, t \in Tokens : RefuseConnection(c, s, t)
  \/ \E c \in ConnIds, s \in Sessions, t \in Tokens : BeginConnection(c, s, t)
  \/ \E c \in ConnIds : Connect(c)
  \/ \E c \in ConnIds : SendOk(c)
  \/ \E c \in ConnIds : SendFail(c)
  \/ \E c \in ConnIds : ReceiveDisconnect(c)
  \/ \E c \in ConnIds : ClientClose(c)
  \/ Tick
  \/ \E T \in 1..MaxTimeoutMinutes : CleanupScan(T)
  \/ CleanupClosed
  \/ CleanupCloseFailed

Spec == Init /\ [][Next]_vars

(* ------------- the capture protocol of one served connection ------------- *)
\* One anonymous client connects and sends frames; sends succeed or fail.
CaptureConns == {"c1"}
NextCapture ==
  \/ \E c \in CaptureConns, s \in Sessions : BeginConnection(c, s, "")
  \/ \E c \in CaptureConns : Connect(c)
  \/ \E c \in CaptureConns : SendOk(c)
  \/ \E c \in CaptureConns : SendFail(c)
  \/ \E c \in CaptureConns : Wake(c)
  \/ \E c \in CaptureConns : Receive(c)
  \/ \E c \in CaptureConns : ReadTimeout(c)
  \/ \E c \in CaptureConns : ReceiveDisconnect(c)
  \/ \E c \in CaptureConns, p \in FramePayloads : ClientSend(c, p)
  \/ \E c \in CaptureConns : ClientClose(c)

SpecCapture == Init /\ [][NextCapture]_vars

(* ------------------- a fan-out sender among the handlers ----------------- *)
\* Anonymous clients connect, are greeted, stay silent and leave, while a
\* caller sends a message to a session; every send succeeds or fails.
FanoutOrders == UNION {Orders(S) : S \in SUBSET ConnIds}
NextFanout ==
  \/ \E c \in ConnIds, s \in Sessions : BeginConnection(c, s, "")
  \/ \E c \in ConnIds : Connect(c)
  \/ \E c \in ConnIds : SendOk(c)
  \/ \E c \in ConnIds : SendFail(c)
  \/ \E c \in ConnIds : ReceiveDisconnect(c)
  \/ \E c \in ConnIds : ClientClose(c)
  \/ \E s \in Sessions, order \in FanoutOrders : SendToSession(s, order)
  \/ FanoutSendOk
  \/ FanoutSendFail

SpecFanout == Init /\ [][NextFanout]_vars

(* ------------ the three fan-out calls among the handlers ---------------- *)
\* Clients of user 1 and anonymous clients join one session, are greeted,
\* stay silent and leave, while a caller sends a message to the session, to
\* the user or to everyone; every send succeeds or fails.
FanoutTokens == {"", "sub=1"}
NextFanoutAll ==
  \/ \E c \in ConnIds, t \in FanoutTokens : BeginConnection(c, "s1", t)
  \/ \E c \in ConnIds : Connect(c)
  \/ \E c \in ConnIds : SendOk(c)
  \/ \E c \in ConnIds : SendFail(c)
  \/ \E c \in ConnIds : ReceiveDisconnect(c)
  \/ \E c \in ConnIds : ClientClose(c)
  \/ \E order \in FanoutOrders : SendToSession("s1", order)
  \/ \E order \in FanoutOrders : SendToUser(1, order)
  \/ \E order \in FanoutOrders : Broadcast(order)
  \/ FanoutSendOk
  \/ FanoutSendFail

SpecFanoutAll == Init /\ [][NextFanoutAll]_vars

(* -------------- countdowns under the liveness scheduler ----------------- *)
\* One anonymous client starts countdowns and pings while the clock advances
\* and the cleanup task evicts; every send and every close succeeds or fails.
CountdownPayloads == {p \in FramePayloads : p.type \in {"start_countdown", "ping"}}
NextEvict ==
  \/ \E c \in CaptureConns : BeginConnection(c, "s1", "")
  \/ \E c \in CaptureConns : Connect(c)
  \/ \E c \in CaptureConns : SendOk(c)
  \/ \E c \in CaptureConns : SendFail(c)
  \/ \E c \in CaptureConns : Wake(c)
  \/ \E c \in CaptureConns : Receive(c)
  \/ \E c \in CaptureConns : ReceiveDisconnect(c)
  \/ \E c \in CaptureConns, p \in CountdownPayloads : ClientSend(c, p)
  \/ \E c \in CaptureConns : ClientClose(c)
  \/ Tick
  \/ \E T \in 1..MaxTimeoutMinutes : CleanupScan(T)
  \/ CleanupClosed
  \/ CleanupCloseFailed

SpecEvict == Init /\ [][NextEvict]_vars

(* ------------------ frames that go through the detector ----------------- *)
\* One anonymous client sends face_detection frames whose images the detector
\* answers with a complete result or with one that lacks keys.
NextDetector ==
  \/ \E c \in CaptureConns, s \in Sessions : BeginConnection(c, s, "")
  \/ \E c \in CaptureConns : Connect(c)
  \/ \E c \in CaptureConns : SendOk(c)
  \/ \E c \in CaptureConns : SendFail(c)
  \/ \E c \in CaptureConns : Wake(c)
  \/ \E c \in CaptureConns : Receive(c)
  \/ \E c \in CaptureConns : ReceiveDisconnect(c)
  \/ \E c \in CaptureConns, p \in DetectorPayloads : ClientSend(c, p)
  \/ \E c \in CaptureConns : ClientClose(c)

SpecDetector == Init /\ [][NextDetector]_vars

(* ------------------------- frames that do not parse ---------------------- *)
\* One anonymous client sends malformed frames and pings.
ProtocolErrorPayloads ==
  MalformedPayloads \cup {p \in FramePayloads : p.type = "ping"}
NextMalformed ==
  \/ \E c \in CaptureConns, s \in Sessions : BeginConnection(c, s, "")
  \/ \E c \in CaptureConns : Connect(c)
  \/ \E c \in CaptureConns : SendOk(c)
  \/ \E c \in CaptureConns : SendFail(c)
  \/ \E c \in CaptureConns : Receive(c)
  \/ \E c \in CaptureConns : ReceiveDisconnect(c)
  \/ \E c \in CaptureConns, p \in ProtocolErrorPayloads : ClientSend(c, p)
  \/ \E c \in CaptureConns : ClientClose(c)

SpecMalformed == Init /\ [][NextMalformed]_vars

(* ------------- a faulty connection beside a healthy one ------------------ *)
\* Two clients of user 1 join session "s1". The first sends frames that end
\* in an error path (text that is not JSON, an image the detector fails on),
\* its sends succeed or fail and it leaves; the second starts countdowns and
\* its sends succeed. The clock advances and the cleanup task runs.
FaultyConn == "c1"
HealthyConn == "c2"
FaultPayloads ==
  {p \in MalformedPayloads : p.json = "invalid"}
  \cup {p \in FramePayloads : p.image = Some("corrupt")}
HealthyPayloads ==
  {p \in FramePayloads : p.type = "start_countdown" /\ p.duration = Some(1)}
NextIsolation ==
  \/ \E c \in ConnIds : BeginConnection(c, "s1", "sub=1")
  \/ \E c \in ConnIds : Connect(c)
  \/ \E c \in ConnIds : SendOk(c)
  \/ SendFail(FaultyConn)
  \/ \E c \in ConnIds : Wake(c)
  \/ \E c \in ConnIds : Receive(c)
  \/ \E c \in ConnIds : ReceiveDisconnect(c)
  \/ \E p \in FaultPayloads : ClientSend(FaultyConn, p)
  \/ \E p \in HealthyPayloads : ClientSend(HealthyConn, p)
  \/ ClientClose(FaultyConn)
  \/ Tick
  \/ \E T \in 1..MaxTimeoutMinutes : CleanupScan(T)
  \/ CleanupClosed
  \/ CleanupCloseFailed

SpecIsolation == Init /\ [][NextIsolation]_vars

(* ------------------- the manager's interface called directly ------------ *)
\* manager.connect after its `await websocket.accept()`, from any caller
RegisterCall(connection_id, session_id, user_id) ==
  /\ SetRegistry(connect(Registry, connection_id, session_id, user_id, now))
  /\ UNCHANGED <<now, pc, local, ws, sent, cleanup, frames, probes, cur, fanout>>

\* manager.disconnect, from any caller
DeregisterCall(connection_id) ==
  /\ SetRegistry(disconnect(Registry, connection_id))
  /\ UNCHANGED <<now, pc, local, ws, sent, cleanup, frames, probes, cur, fanout>>

\* Any sequence of connect and disconnect calls, with ids, sessions and users
\* repeated at will.
RegistryUsers == {None, Some(1)}
NextRegistry ==
  \/ \E c \in ConnIds, s \in Sessions, u \in RegistryUsers : RegisterCall(c, s, u)
  \/ \E c \in ConnIds : DeregisterCall(c)

SpecRegistry == Init /\ [][NextRegistry]_vars

(* ---------------- the receive loop while the clock advances -------------- *)
\* One anonymous client sends frames of every branch of the dispatch (a ping,
\* an unknown type, text that is not JSON, an image the detector fails on, a
\* countdown of one second) or stays silent until the read times out; every
\* send succeeds or fails, and the clock advances.
ActivityPayloads ==
  {p \in MalformedPayloads : p.json = "invalid"}
  \cup {p \in FramePayloads :
          \/ p.type \in {"ping", "foo"}
          \/ p.image = Some("corrupt")
          \/ p.type = "start_countdown" /\ p.duration = Some(1)}
NextActivity ==
  \/ \E c \in CaptureConns : BeginConnection(c, "s1", "")
  \/ \E c \in CaptureConns : Connect(c)
  \/ \E c \in CaptureConns : SendOk(c)
  \/ \E c \in CaptureConns : SendFail(c)
  \/ \E c \in CaptureConns : Wake(c)
  \/ \E c \in CaptureConns : Receive(c)
  \/ \E c \in CaptureConns : ReadTimeout(c)
  \/ \E c \in CaptureConns : ReceiveDisconnect(c)
  \/ \E c \in CaptureConns, p \in ActivityPayloads : ClientSend(c, p)
  \/ \E c \in CaptureConns : ClientClose(c)
  \/ Tick

SpecActivity == Init /\ [][NextActivity]_vars

(* --------------------- the manual capture commands ----------------------- *)
\* One anonymous client sends stop_countdown, capture_ready and start_countdown
\* frames whose duration is negative, zero or positive; sends succeed or fail.
MinDuration == -1
ManualPayloads ==
  {p \in FramePayloads : p.type \in {"stop_countdown", "capture_ready"}}
  \cup [json : {"object"}, type : {"start_countdown"},
        duration : {Some(d) : d \in MinDuration..MaxDuration}, image : {None}]
NextManual ==
  \/ \E c \in CaptureConns, s \in Sessions : BeginConnection(c, s, "")
  \/ \E c \in CaptureConns : Connect(c)
  \/ \E c \in CaptureConns : SendOk(c)
  \/ \E c \in CaptureConns : SendFail(c)
  \/ \E c \in CaptureConns : Wake(c)
  \/ \E c \in CaptureConns : Receive(c)
  \/ \E c \in CaptureConns : ReceiveDisconnect(c)
  \/ \E c \in CaptureConns, p \in ManualPayloads : ClientSend(c, p)
  \/ \E c \in CaptureConns : ClientClose(c)

SpecManual == Init /\ [][NextManual]_vars

(* ================================ claims =============================== *)
LastActivity(c) == connection_metadata[c].last_activity

\* C1: the index structures agree with the id table: a connection id is in a
\* session's set iff it is registered (a key of active_connections and of
\* connection_metadata) with that session id, and in a user's set iff it is
\* registered with that user id.
C1_IndexesConsistent ==
  \A c \in ConnIds :
    /\ (c \in active_connections) <=> (c \in DOMAIN connection_metadata)
    /\ \A s \in Sessions :
         (s \in DOMAIN session_connections /\ c \in session_connections[s])
           <=> (c \in active_connections /\ c \in DOMAIN connection_metadata
                /\ connection_metadata[c].session_id = s)
    /\ \A u \in UserIds :
         (u \in DOMAIN user_connections /\ c \in user_connections[u])
           <=> (c \in active_connections /\ c \in DOMAIN connection_metadata
                /\ connection_metadata[c].user_id = Some(u))

\* C2: every key of session_connections and of user_connections maps to a
\* non-empty set.
C2_NoEmptyIndexEntry ==
  /\ \A s \in DOMAIN session_connections : session_connections[s] # {}
  /\ \A u \in DOMAIN user_connections : user_connections[u] # {}

\* a connection that was registered with user 1 has left, and took the last
\* entry of its session and of its user with it
C2_Witness ==
  \E c \in ConnIds :
    /\ pc[c] = "done" /\ sent[c] # << >>
    /\ local[c].user_id = Some(1)
    /\ local[c].session_id \notin DOMAIN session_connections
    /\ 1 \notin DOMAIN user_connections

\* C3: disconnect is idempotent in every reachable registry: a second
\* disconnect(id) changes nothing, a disconnect of an id that is not registered
\* changes nothing, and neither raises.
C3_DisconnectIdempotent ==
  \A id \in ConnIds :
    LET once == disconnect(Registry, id)
        twice == disconnect(once, id)
    IN /\ twice = once
       /\ ~once.raised /\ ~twice.raised
       /\ (id \notin active_connections => once = Registry)

\* the cleanup evicted a connection and its handler then ran its `finally`:
\* disconnect was called twice for the id
C3_Witness ==
  \E c \in ConnIds :
    /\ pc[c] = "done" /\ ws[c].close_code = NormalClosure
    /\ \E d \in ConnIds : d # c /\ d \in active_connections

\* C10: for every timeout T the scan selects exactly the registered connections
\* idle for more than T, and none to which a send succeeded less than T ago.
C10_ScanSelectsStale ==
  \A T \in 0..MaxTimeoutMinutes :
    LET selected == Range(scan_inactive(Registry, now, T))
    IN /\ selected = {c \in active_connections : now - LastActivity(c) > T}
       /\ \A c \in ConnIds :
            (ws[c].last_send # None /\ now - ws[c].last_send[1] < T)
              => c \notin selected

\* a cycle has selected the one connection idle for more than the timeout and
\* not the one idle for exactly the timeout, which a send had refreshed
C10_Witness ==
  \E c, d \in ConnIds :
    /\ cleanup.pc = "close" /\ cleanup.inactive_connections = <<c>>
    /\ c \in active_connections /\ now - LastActivity(c) = MaxTimeoutMinutes + 1
    /\ d \in active_connections /\ now - LastActivity(d) = MaxTimeoutMinutes
    /\ ws[d].last_send = Some(LastActivity(d)) /\ LastActivity(d) > 0


(* ---------------------- claims on the capture protocol ------------------ *)
\* the envelopes delivered since the handler took up its current frame
Emitted(c) == SubSeq(sent[c], cur[c].mark + 1, Len(sent[c]))
\* the handler has finished its frame and waits for the next one
Handled(c) == pc[c] = "recv"
Types(seq) == {seq[i].type : i \in DOMAIN seq}

ExpectedCountdown(session_id, N, auto) ==
  <<[type |-> "countdown_started", session_id |-> session_id,
     duration |-> N, auto |-> auto]>>
  \o [i \in 1..N |-> [type |-> "countdown_tick", session_id |-> session_id,
                      remaining |-> N + 1 - i]]
  \o <<[type |-> "capture_command", session_id |-> session_id, auto |-> auto]>>

\* C4: on a connection still registered when the handling of a frame ends, a
\* countdown started with duration N >= 1 has emitted countdown_started, the
\* ticks N..1 and one capture_command with the same auto flag, and nothing
\* else; a start_countdown frame without duration counts COUNTDOWN_SECONDS
\* with auto = false.
C4_CountdownSequence ==
  \A c \in ConnIds :
    (Handled(c) /\ Registered(c)) =>
      /\ \A j \in DOMAIN Emitted(c) :
           (Emitted(c)[j].type = "countdown_started" /\ Emitted(c)[j].duration >= 1)
             => SubSeq(Emitted(c), j, Len(Emitted(c)))
                  = ExpectedCountdown(local[c].session_id, Emitted(c)[j].duration,
                                      Emitted(c)[j].auto)
      /\ cur[c].frame.type = "start_countdown" =>
           LET N == IF cur[c].frame.duration = None THEN COUNTDOWN_SECONDS
                    ELSE cur[c].frame.duration[1]
           IN N >= 1 => Emitted(c) = ExpectedCountdown(local[c].session_id, N, FALSE)

\* a start_countdown frame without duration has been handled to the end
C4_Witness ==
  \E c \in ConnIds :
    /\ Handled(c) /\ Registered(c)
    /\ cur[c].frame.type = "start_countdown" /\ cur[c].frame.duration = None
    /\ Len(Emitted(c)) = COUNTDOWN_SECONDS + 2

\* the countdown_started of the run a frame sent at log length `at` fell into
RunStart(c, at) ==
  LET js == {j \in 1..at : sent[c][j].type = "countdown_started"}
  IN IF js = {} THEN 0 ELSE CHOOSE j \in js : \A k \in js : k <= j

\* C5: once the client has sent stop_countdown after k < N ticks of a running
\* countdown, no further countdown_tick and no capture_command of that run is
\* delivered.
C5_StopCancelsCountdown ==
  \A c \in ConnIds :
    \A f \in Range(ws[c].inbox) \cup {cur[c].frame} :
      LET j == RunStart(c, f.at)
      IN (/\ f.type = "stop_countdown" /\ f.inRun
          /\ j > 0
          /\ \A i \in (j + 1)..f.at : sent[c][i].type = "countdown_tick"
          /\ f.at - j < sent[c][j].duration)
         => \A i \in (f.at + 1)..Len(sent[c]) :
              (\A m \in (f.at + 1)..i : sent[c][m].type # "countdown_started")
                => sent[c][i].type \notin {"countdown_tick", "capture_command"}

\* C6: a face_detection frame whose image the detector finds ready yields
\* exactly face_detection_result with the detector's values,
\* countdown_started{auto, duration 3}, the ticks 3, 2, 1 and
\* capture_command{auto}, in this order.
C6_AutoCaptureSequence ==
  \A c \in ConnIds :
    (/\ Handled(c) /\ Registered(c)
     /\ cur[c].frame.type = "face_detection"
     /\ cur[c].frame.image = Some("face_ready"))
    => Emitted(c) =
         <<[type |-> "face_detection_result", session_id |-> local[c].session_id,
            detected |-> TRUE, confidence |-> "0.9", face_count |-> 1,
            ready_for_capture |-> TRUE, feedback |-> "hold still"],
           [type |-> "countdown_started", session_id |-> local[c].session_id,
            duration |-> 3, auto |-> TRUE],
           [type |-> "countdown_tick", session_id |-> local[c].session_id,
            remaining |-> 3],
           [type |-> "countdown_tick", session_id |-> local[c].session_id,
            remaining |-> 2],
           [type |-> "countdown_tick", session_id |-> local[c].session_id,
            remaining |-> 1],
           [type |-> "capture_command", session_id |-> local[c].session_id,
            auto |-> TRUE]>>

C6_Witness ==
  \E c \in ConnIds :
    /\ Handled(c) /\ Registered(c)
    /\ cur[c].frame.type = "face_detection"
    /\ cur[c].frame.image = Some("face_ready")
    /\ local[c].session_id = "s1"
    /\ Len(Emitted(c)) = 6

\* C7: a ready face_detection frame that arrived while a countdown was running
\* (here: after one of its ticks) starts no countdown of its own: its handling
\* delivers no countdown_started, no countdown_tick and no capture_command.
C7_ReadyFrameIgnoredDuringCountdown ==
  \A c \in ConnIds :
    (/\ cur[c].frame.type = "face_detection" /\ cur[c].frame.inRun
     /\ cur[c].frame.image = Some("face_ready")
     /\ cur[c].frame.at > 0 /\ sent[c][cur[c].frame.at].type = "countdown_tick")
    => Types(Emitted(c)) \cap
         {"countdown_started", "countdown_tick", "capture_command"} = {}

\* the countdown during which a frame sent at log length `at` arrived (its
\* countdown_started and the ticks up to `at` were delivered by then) has run
\* to its end: all its ticks and its capture_command were delivered
RunCompleted(c, at) ==
  LET j == RunStart(c, at)
  IN (j > 0 /\ \A i \in (j + 1)..at : sent[c][i].type = "countdown_tick")
     => /\ Len(sent[c]) >= j + sent[c][j].duration + 1
        /\ SubSeq(sent[c], j, j + sent[c][j].duration + 1)
             = ExpectedCountdown(local[c].session_id, sent[c][j].duration,
                                 sent[c][j].auto)

\* C8: the handling of a ping frame delivers one pong and nothing else, in
\* whatever state the frame arrived, and neither starts a countdown nor cuts
\* short the countdown during which the ping arrived.
C8_PingYieldsOnePong ==
  \A c \in ConnIds :
    cur[c].frame.type = "ping" =>
      /\ Emitted(c) \in {<< >>, <<[type |-> "pong"]>>}
      /\ ~InCountdown(c)
      /\ (Handled(c) /\ Registered(c)) =>
           /\ Emitted(c) = <<[type |-> "pong"]>>
           /\ cur[c].frame.inRun => RunCompleted(c, cur[c].frame.at)

\* pings were answered that arrived during a countdown
C8_Witness ==
  \E c \in ConnIds :
    /\ Handled(c) /\ Registered(c)
    /\ cur[c].frame.type = "ping" /\ cur[c].frame.inRun
    /\ cur[c].frame.at > 0 /\ sent[c][cur[c].frame.at].type = "countdown_tick"
    /\ Emitted(c) = <<[type |-> "pong"]>>

\* C9: the handling of a frame of unknown type delivers one error envelope
\* "Unknown message type: <type>" and nothing else, and leaves the connection
\* registered, its socket open and the handler waiting for the next frame.
C9_UnknownTypeError ==
  \A c \in ConnIds :
    cur[c].frame.type = "foo" =>
      LET err == [type |-> "error", message |-> "Unknown message type: foo"]
      IN /\ Emitted(c) \in {<< >>, <<err>>}
         /\ ws[c].close_code = 0
         /\ ~InCountdown(c)
         /\ Emitted(c) = <<err>> => (Handled(c) => Registered(c))
         /\ (Handled(c) /\ Registered(c)) => Emitted(c) = <<err>>

\* an unknown frame that arrived during a countdown has been answered
C9_Witness ==
  \E c \in ConnIds :
    /\ Handled(c) /\ Registered(c)
    /\ cur[c].frame.type = "foo" /\ cur[c].frame.inRun
    /\ Emitted(c) = <<[type |-> "error", message |-> "Unknown message type: foo"]>>

(* ------------------- claims on admission and teardown ------------------- *)
\* the id is in none of the four registry structures
Absent(c) ==
  /\ c \notin active_connections
  /\ c \notin DOMAIN connection_metadata
  /\ \A s \in DOMAIN session_connections : c \notin session_connections[s]
  /\ \A u \in DOMAIN user_connections : c \notin user_connections[u]

\* C13: a connection attempt with a token the verifier rejects (invalid or
\* expired) is closed with code 1008 and its id is never in active_connections,
\* connection_metadata, a session set or a user set; an attempt without a token
\* is not refused and is registered with user id None.
C13_RejectedTokenRefused ==
  \A c \in ConnIds :
    /\ local[c].token \in {"invalid", "expired"} =>
         /\ pc[c] = "refused" /\ ws[c].close_code = 1008
         /\ Absent(c)
    /\ pc[c] \in {"init", "refused"} => Absent(c)
    /\ local[c].token = "" =>
         /\ pc[c] # "refused" /\ ws[c].close_code # 1008
         /\ c \in DOMAIN connection_metadata =>
              connection_metadata[c].user_id = << >>

\* one attempt was refused for an expired token while a connection that came
\* without a token is registered and greeted
C13_Witness ==
  \E c, d \in ConnIds :
    /\ local[c].token = "expired" /\ pc[c] = "refused"
    /\ local[d].token = "" /\ pc[d] = "recv" /\ d \in active_connections
    /\ sent[d] # << >>

\* C14: a handler that has terminated after registering its connection has
\* left its id in none of active_connections, connection_metadata, the session
\* sets and the user sets.
C14_TerminatedHandlerDeregistered ==
  \A c \in ConnIds : pc[c] = "done" => Absent(c)

\* a handler has terminated while another connection of the same session and
\* the same user stays registered
C14_Witness ==
  \E c, d \in ConnIds :
    /\ pc[c] = "done" /\ d \in active_connections
    /\ local[c].session_id = local[d].session_id
    /\ local[c].user_id = <<1>> /\ local[d].user_id = <<1>>
    /\ session_connections[local[d].session_id] = {d}
    /\ user_connections[1] = {d}

\* C20: when send_text fails, the connection is in none of the registry
\* structures when send_personal_message returns, and it does return: the
\* handler goes on in its loop instead of taking the exception path.
C20_SendFailureDeregisters ==
  [][\A c \in ConnIds :
       (/\ pc[c] = "send" /\ sent'[c] = sent[c]
        /\ <<pc[c], local[c]>>' # <<pc[c], local[c]>>)
       => /\ Absent(c)'
          /\ pc'[c] \in {"recv", "sleep"}]_vars

\* the greeting of a registered connection failed while another connection of
\* its session stays registered
C20_Witness ==
  \E c, d \in ConnIds :
    /\ ws[c].send_failed /\ ws[c].close_code = 0 /\ sent[c] = << >>
    /\ pc[c] = "recv" /\ c \notin active_connections
    /\ d \in active_connections /\ local[d].session_id = local[c].session_id

\* C15: after a send to a connection has failed, its handler takes no further
\* frame from the socket to dispatch it and starts no further send.
C15_SendFailureEndsLoop ==
  [][\A c \in ConnIds :
       ws[c].send_failed =>
         /\ ~(/\ pc[c] = "recv" /\ pc'[c] # "done"
              /\ Len(ws'[c].inbox) < Len(ws[c].inbox))
         /\ (pc'[c] = "send" => <<pc[c], local[c]>>' = <<pc[c], local[c]>>)]_vars

\* C11: when a cleanup cycle ends, every connection its scan found stale is in
\* none of the registry structures, whether its close succeeded or failed.
C11_CleanupDeregistersStale ==
  [][(cleanup.pc = "close" /\ cleanup'.pc = "sleep")
       => \A id \in Range(cleanup.inactive_connections) : Absent(id)']_vars

(* ------------------------ claims on detector errors --------------------- *)
\* detector results that carry an error, with and without ready_for_capture
ErrorResults ==
  {[detected |-> FALSE, confidence |-> "0.0", face_count |-> 0,
    error |-> "cannot identify image file"],
   [detected |-> FALSE, confidence |-> "0.0", face_count |-> 0,
    ready_for_capture |-> FALSE, feedback |-> "detection failed",
    error |-> "bad frame"],
   [detected |-> TRUE, confidence |-> "0.9", face_count |-> 1,
    ready_for_capture |-> TRUE, feedback |-> "hold still",
    error |-> "bad frame"]}

DetectorError == [type |-> "error",
                  message |-> "Face detection failed: cannot identify image file"]

\* C18: the handling of a face_detection frame whose detector result contains
\* an error delivers one error envelope with the detector's detail and nothing
\* else: no face_detection_result, no countdown, also for a result that says
\* ready_for_capture (the reply of a registered handler that waits for a frame
\* to each result of ErrorResults); the connection stays registered and the
\* frame after it is handled as usual.
C18_DetectorErrorReported ==
  \A c \in ConnIds :
    /\ (cur[c].frame.type = "face_detection" /\ cur[c].frame.image = <<"corrupt">>)
         => /\ Emitted(c) \in {<< >>, <<DetectorError>>}
            /\ ~InCountdown(c)
            /\ (Emitted(c) = <<DetectorError>> /\ Handled(c)) => Registered(c)
            /\ (Handled(c) /\ Registered(c)) => Emitted(c) = <<DetectorError>>
    /\ (pc[c] = "recv" /\ Registered(c)) =>
         \A res \in ErrorResults :
           face_detection_reply(local[c], TRUE, res) =
             [pc |-> "send",
              l |-> [local[c] EXCEPT
                       !.message = [type |-> "error",
                                    message |-> "Face detection failed: " \o res.error],
                       !.ret = "loop"]]
    /\ (/\ cur[c].mark > 0 /\ sent[c][cur[c].mark] = DetectorError
        /\ cur[c].frame.type = "ping" /\ Handled(c) /\ Registered(c))
         => Emitted(c) = <<[type |-> "pong"]>>

\* a frame with a corrupt image was answered by the detector's error, and the
\* ping after it by a pong
C18_Witness ==
  \E c \in ConnIds :
    /\ Handled(c) /\ Registered(c)
    /\ cur[c].mark > 0 /\ sent[c][cur[c].mark] = DetectorError
    /\ cur[c].frame.type = "ping" /\ ~cur[c].frame.inRun
    /\ Emitted(c) = <<[type |-> "pong"]>>

(* --------------------------- claims on fan-out -------------------------- *)
\* how often the fan-out's message was delivered to a member since the call began
Delivered(id) ==
  Cardinality({j \in (fanout.mark[id] + 1)..Len(sent[id]) :
                 sent[id][j] = [type |-> "session_message"]})

\* C12: send_to_session calls send_personal_message for every member of its
\* snapshot of the session, whatever happened to the members before it: when
\* the call has returned no member is left out, a member whose transmit
\* succeeded has received the message exactly once, a member whose transmit
\* failed or who had left before its turn has not received it and is
\* deregistered, and the call has raised nothing.
C12_SessionFanoutDelivers ==
  /\ ~fanout.raised
  /\ \A id \in Range(fanout.connection_ids) :
       /\ local[id].session_id = fanout.session_id
       /\ fanout.outcome[id] = "ok" => Delivered(id) = 1
       /\ fanout.outcome[id] # "ok" => Delivered(id) = 0
       /\ fanout.outcome[id] \in {"failed", "gone"} => id \notin active_connections
       /\ fanout.pc = "idle" => fanout.outcome[id] # "pending"
  /\ fanout.pc = "send" =>
       /\ fanout.i \in DOMAIN fanout.connection_ids
       /\ \A k \in DOMAIN fanout.connection_ids :
            (fanout.outcome[fanout.connection_ids[k]] = "pending") <=> (k >= fanout.i)

\* a call for a session of two members has returned: the transmit to the first
\* member failed, the second received the message
C12_Witness ==
  \E c, d \in ConnIds :
    /\ fanout.pc = "idle" /\ fanout.connection_ids = <<c, d>> /\ c # d
    /\ fanout.outcome[c] = "failed" /\ fanout.outcome[d] = "ok"
    /\ Delivered(d) = 1 /\ d \in active_connections

(* ------------------------ claims on interleavings ----------------------- *)
\* C19: at every scheduling point (every state: a step runs one task from one
\* await to the next) each connection id is either in active_connections, in
\* connection_metadata, in the set of its session and, when it came with a user
\* id, in the set of its user, or it is in none of the four structures.
C19_NoHalfUpdatedRegistry ==
  \A c \in ConnIds :
    LET inIds == c \in active_connections
        inMeta == c \in DOMAIN connection_metadata
        inSession == \E s \in DOMAIN session_connections : c \in session_connections[s]
        inUser == \E u \in DOMAIN user_connections : c \in user_connections[u]
    IN \/ /\ inIds /\ inMeta
          /\ connection_metadata[c].session_id # "" => inSession
          /\ connection_metadata[c].user_id # << >> => inUser
       \/ ~inIds /\ ~inMeta /\ ~inSession /\ ~inUser

(* --------------------- claims on eviction and ordering ------------------ *)
\* the envelopes of a log that the connection's own handler produced
HandlerLog(log) == SelectSeq(log, LAMBDA m : m.type # "session_message")

\* the handler of c hands a new envelope to the socket in this step
StartsSend(c) ==
  pc'[c] = "send" /\ <<pc[c], local[c]>>' # <<pc[c], local[c]>>

\* C16: no countdown_tick and no capture_command is handed to the socket of a
\* connection that is deregistered, whichever task deregistered it and at
\* whichever await of the countdown; the only envelope that can still arrive
\* after the deregistration is the one whose send_text was already awaited,
\* and nothing follows it.
C16_NoTickAfterDeregistration ==
  [][\A c \in ConnIds :
       /\ (StartsSend(c)
           /\ local'[c].message.type \in {"countdown_tick", "capture_command"})
          => (c \in active_connections /\ c \in active_connections')
       /\ (c \notin active_connections /\ HandlerLog(sent'[c]) # HandlerLog(sent[c]))
          => /\ pc[c] = "send" /\ sent'[c] = Append(sent[c], local[c].message)
             /\ pc'[c] # "send"]_vars

\* the cleanup task evicted the connection during the sleep after the first
\* tick of a countdown of three, and the countdown ended there
C16_Witness ==
  \E c \in ConnIds :
    /\ pc[c] = "recv" /\ c \notin active_connections
    /\ ws[c].close_code = 1000 /\ ~ws[c].send_failed
    /\ cur[c].frame.type = "start_countdown" /\ cur[c].frame.duration = << >>
    /\ Emitted(c) =
         <<[type |-> "countdown_started", session_id |-> local[c].session_id,
            duration |-> 3, auto |-> FALSE],
           [type |-> "countdown_tick", session_id |-> local[c].session_id,
            remaining |-> 3]>>

C21_OneCountdownPerConnection ==
  \A c \in ConnIds :
    LET log == HandlerLog(sent[c])
    IN /\ \A j \in DOMAIN log :
            log[j].type = "countdown_started" =>
              LET run == ExpectedCountdown(log[j].session_id, log[j].duration,
                                           log[j].auto)
              IN \A k \in DOMAIN run :
                   j + k - 1 <= Len(log) => log[j + k - 1] = run[k]
       /\ \A i \in DOMAIN log :
            (\/ log[i].type = "countdown_tick"
             \/ log[i].type = "capture_command" /\ "auto" \in DOMAIN log[i]) =>
              \E j \in 1..(i - 1) :
                /\ log[j].type = "countdown_started"
                /\ i <= j + log[j].duration + 1
                /\ \A m \in (j + 1)..i : log[m].type # "countdown_started"

\* a start_countdown frame that arrived during a countdown has been handled
\* to the end: its run began after the capture_command of the run before
C21_Witness ==
  \E c \in ConnIds :
    /\ Handled(c) /\ Registered(c)
    /\ cur[c].frame.type = "start_countdown" /\ cur[c].frame.inRun
    /\ cur[c].frame.at > 0 /\ sent[c][cur[c].frame.at].type = "countdown_tick"
    /\ cur[c].mark > 0 /\ sent[c][cur[c].mark].type = "capture_command"
    /\ Len(Emitted(c)) >= 3

(* --------------------- claims on the detector's result ------------------ *)
\* detector results without "error" in which the readiness flag agrees with
\* none of the quality fields, or with all of them
QualityResults ==
  [detected : BOOLEAN, confidence : {"0.0", "0.9"}, face_count : {0, 1, 2},
   ready_for_capture : BOOLEAN, feedback : {"hold still"}]

\* the handler's next step after the result envelope of `res` went out
AfterResult(c, res) ==
  LET reply == face_detection_reply(local[c], TRUE, res)
  IN after_send(reply.l, TRUE)

\* C22: for a face_detection frame whose detector result has no error the
\* automatic countdown (countdown_started with auto = true, duration 3) is
\* started exactly when the result's ready_for_capture is true: frames whose
\* result is not ready or has no readiness flag deliver no countdown envelope,
\* frames whose result is ready deliver it right after the result, and for
\* every combination of detected, confidence and face_count the handler's
\* step after the result is decided by ready_for_capture alone.
C22_AutoCountdownIffReady ==
  \A c \in ConnIds :
    /\ (cur[c].frame.type = "face_detection" /\ cur[c].frame.image # None) =>
         LET image == cur[c].frame.image[1]
         IN /\ image \in {"face_far", "no_fields", "no_ready_flag"} =>
                 Types(Emitted(c)) \cap
                   {"countdown_started", "countdown_tick", "capture_command"} = {}
            /\ (image \in {"face_ready", "ready_only"} /\ Len(Emitted(c)) >= 2) =>
                 Emitted(c)[2] = [type |-> "countdown_started",
                                  session_id |-> local[c].session_id,
                                  duration |-> 3, auto |-> TRUE]
            /\ (image \in {"face_ready", "ready_only"}
                  /\ Handled(c) /\ Registered(c)) =>
                 Len(Emitted(c)) = 6
    /\ (pc[c] = "recv" /\ Registered(c)) =>
         \A res \in QualityResults :
           AfterResult(c, res) =
             IF res.ready_for_capture
             THEN [pc |-> "send",
                   l |-> [local[c] EXCEPT
                            !.ready = TRUE, !.duration = 3, !.auto = TRUE,
                            !.ret = "started",
                            !.message = [type |-> "countdown_started",
                                         session_id |-> local[c].session_id,
                                         duration |-> 3, auto |-> TRUE]]]
             ELSE [pc |-> "recv", l |-> local[c]]

\* a frame whose result carries nothing but a true readiness flag has run its
\* automatic countdown to the end
C22_Witness ==
  \E c \in ConnIds :
    /\ Handled(c) /\ Registered(c)
    /\ cur[c].frame.type = "face_detection"
    /\ cur[c].frame.image = Some("ready_only")
    /\ Len(Emitted(c)) = 6
    /\ Emitted(c)[6].type = "capture_command"

C24_CaptureRearms ==
  \A c \in ConnIds :
    (/\ Handled(c) /\ Registered(c)
     /\ \E i \in 1..cur[c].mark :
          sent[c][i].type = "capture_command" /\ "auto" \in DOMAIN sent[c][i])
    => /\ cur[c].frame.type = "start_countdown" =>
            LET N == IF cur[c].frame.duration = None THEN 3
                     ELSE cur[c].frame.duration[1]
                tail == SubSeq(Emitted(c), 2, Len(Emitted(c)))
            IN N >= 1 =>
                 /\ Len(Emitted(c)) = N + 2
                 /\ Emitted(c)[1] = [type |-> "countdown_started",
                                     session_id |-> local[c].session_id,
                                     duration |-> N, auto |-> FALSE]
                 /\ \A k \in 1..N :
                      tail[k] = [type |-> "countdown_tick",
                                 session_id |-> local[c].session_id,
                                 remaining |-> N + 1 - k]
                 /\ tail[N + 1] = [type |-> "capture_command",
                                   session_id |-> local[c].session_id,
                                   auto |-> FALSE]
       /\ (cur[c].frame.type = "face_detection"
             /\ cur[c].frame.image = Some("face_ready")) =>
            /\ Len(Emitted(c)) = 6
            /\ Types(SubSeq(Emitted(c), 3, 5)) = {"countdown_tick"}
            /\ Emitted(c)[2] = [type |-> "countdown_started",
                                session_id |-> local[c].session_id,
                                duration |-> 3, auto |-> TRUE]
            /\ Emitted(c)[6] = [type |-> "capture_command",
                                session_id |-> local[c].session_id,
                                auto |-> TRUE]

\* after the capture_command of an automatic countdown a start_countdown
\* frame, sent after that capture, has run its own countdown to the end
C24_Witness ==
  \E c \in ConnIds :
    /\ Handled(c) /\ Registered(c)
    /\ cur[c].frame.type = "start_countdown" /\ ~cur[c].frame.inRun
    /\ cur[c].frame.duration = Some(1)
    /\ cur[c].mark = 7
    /\ sent[c][7] = [type |-> "capture_command", session_id |-> "s2", auto |-> TRUE]
    /\ Len(Emitted(c)) = 3
    /\ Emitted(c)[3].type = "capture_command"

(* ------------------- claims on deregistration and fan-out --------------- *)
\* C25: deregistration is absorbing. Once the id of a connection that was
\* registered is in none of the registry's structures, no step puts it back
\* into any of them; a send that was awaited when the id was removed may
\* still return, adds nothing but its own envelope to the log and re-creates
\* no metadata; the handler hands no further envelope to the socket, and no
\* send ends the handler.
C25_DeregistrationAbsorbing ==
  [][\A c \in ConnIds :
       (pc[c] \in {"recv", "send", "sleep", "done"} /\ Absent(c)) =>
         /\ Absent(c)'
         /\ ~StartsSend(c)
         /\ sent'[c] # sent[c] =>
              (pc[c] = "send" /\ sent'[c] = Append(sent[c], local[c].message))
         /\ pc'[c] = "done" => pc[c] \in {"recv", "done"}]_vars

\* a countdown tick that was awaited when the cleanup task evicted the
\* connection has returned, and the id is still in no structure
C25_Witness ==
  \E c \in ConnIds :
    /\ ws[c].late_send /\ ws[c].close_code = NormalClosure
    /\ Absent(c)
    /\ pc[c] = "sleep"
    /\ sent[c][Len(sent[c])].type = "countdown_tick"

\* the collection a fan-out call reads its list from, as it is now
FanoutTarget ==
  CASE fanout.kind = "session" -> DictGet(session_connections, fanout.session_id, {})
    [] fanout.kind = "user" -> DictGet(user_connections, fanout.user_id, {})
    [] OTHER -> active_connections

\* C26: send_to_session, send_to_user and broadcast run over the list they
\* made when called. A connection that is not in that list (one that was
\* registered while the call was sending) is not sent the message by the
\* call; a member that was deregistered before its turn is skipped, the call
\* raises nothing and goes on to the members after it; no connection is sent
\* the message more than once by one call.
C26_FanoutOverSnapshot ==
  /\ ~fanout.raised
  /\ Range(fanout.connection_ids) = fanout.snapshot
  /\ \A i, j \in DOMAIN fanout.connection_ids :
       fanout.connection_ids[i] = fanout.connection_ids[j] => i = j
  /\ \A id \in ConnIds \ fanout.snapshot : Delivered(id) = 0
  /\ \A id \in fanout.snapshot :
       /\ Delivered(id) <= 1
       /\ Delivered(id) = 1 <=> fanout.outcome[id] = "ok"
       /\ fanout.outcome[id] = "gone" => id \notin active_connections
       /\ fanout.pc = "idle" => fanout.outcome[id] # "pending"
  /\ fanout.pc = "send" =>
       /\ fanout.i \in DOMAIN fanout.connection_ids
       /\ \A k \in DOMAIN fanout.connection_ids :
            k < fanout.i => fanout.outcome[fanout.connection_ids[k]] # "pending"

\* a broadcast is sending to the one connection of its list while a second
\* connection has been registered and greeted since the call began
C26_Witness ==
  \E c, d \in ConnIds :
    /\ fanout.kind = "all" /\ fanout.pc = "send"
    /\ fanout.connection_ids = <<c>> /\ c # d
    /\ d \in FanoutTarget
    /\ fanout.mark[d] = 0 /\ Len(sent[d]) = 1 /\ sent[d][1].type = "connected"

(* ----------------------- claims on malformed frames --------------------- *)
\* C27: a malformed inbound frame (text that is not JSON, JSON that is not an
\* object, an object without "type") is answered with exactly one error
\* envelope and nothing else; the connection stays registered, its socket
\* stays open and the handler returns to the receive loop, where it takes up
\* the next frame.
C27_MalformedFrameOneError ==
  \A c \in ConnIds :
    cur[c].frame.json \in {"invalid", "array", "object_without_type"} =>
      LET text == CASE cur[c].frame.json = "invalid" -> "Invalid JSON format"
                    [] cur[c].frame.json = "array" ->
                         "Message handling error: 'list' object has no attribute 'get'"
                    [] OTHER -> "Unknown message type: None"
          err == [type |-> "error", message |-> text]
      IN /\ Emitted(c) \in {<< >>, <<err>>}
         /\ pc[c] \in {"send", "recv", "done"}
         /\ ws[c].close_code = 0
         /\ Emitted(c) = <<err>> => (Handled(c) => Registered(c))
         /\ (Handled(c) /\ Registered(c)) => Emitted(c) = <<err>>
         /\ pc[c] = "done" => (ws[c].client_closed \/ ws[c].send_failed)

\* a second malformed frame has been answered after a first one was
C27_Witness ==
  \E c \in ConnIds :
    /\ Handled(c) /\ Registered(c)
    /\ cur[c].frame.json = "array"
    /\ cur[c].mark = 2
    /\ sent[c][2] = [type |-> "error", message |-> "Invalid JSON format"]
    /\ Len(Emitted(c)) = 1 /\ Emitted(c)[1].type = "error"

(* ------------------------ claims on containment ------------------------- *)
\* what the registry and the handler hold for connection b
ConnectionView(b) ==
  [registered |-> b \in active_connections,
   metadata |-> DictGet(connection_metadata, b, None),
   sessions |-> {s \in DOMAIN session_connections : b \in session_connections[s]},
   users |-> {u \in DOMAIN user_connections : b \in user_connections[u]},
   pc |-> pc[b], local |-> local[b], sent |-> sent[b], socket |-> ws[b]]

\* C28: errors of a connection are contained. No step of the handler of a
\* connection a (a failed or successful send, the handling of a malformed
\* frame, of an unknown type or of a frame the detector fails on, the end of
\* the handler) changes, for another connection b, its registration, its
\* metadata, its membership in the session and user sets, its handler's
\* position (a countdown in progress included) or its socket, and none
\* changes the state of the cleanup task.
C28_ErrorsContained ==
  [][\A a, b \in ConnIds :
       (a # b /\ <<pc[a], local[a]>>' # <<pc[a], local[a]>>) =>
         /\ ConnectionView(b)' = ConnectionView(b)
         /\ cleanup' = cleanup]_vars

\* the send of the faulty connection's error answer failed and deregistered
\* it, while the healthy connection, in the same session and of the same
\* user, is registered and in the middle of a countdown
C28_Witness ==
  /\ ws[FaultyConn].send_failed /\ Absent(FaultyConn)
  /\ cur[FaultyConn].frame.image = Some("corrupt")
  /\ Emitted(FaultyConn) = << >>
  /\ Registered(HealthyConn) /\ pc[HealthyConn] = "sleep"
  /\ session_connections["s1"] = {HealthyConn}
  /\ user_connections[1] = {HealthyConn}

(* ------------------------ claims on the cleanup cycle ------------------- *)
\* C29: a failed close does not stop the cleanup cycle. Every step of a
\* cycle, whether its close succeeded (the id is deregistered and its socket
\* closed with 1000) or failed (the registry is as before), goes on to the
\* next id of the same scan that is still registered, and the cycle ends only
\* when no id after the current one is registered.
C29_CleanupCycleContinues ==
  [][(cleanup.pc = "close" /\ cleanup' # cleanup) =>
       \E list \in {cleanup.inactive_connections}, i \in {cleanup.i} :
          /\ \E id \in {list[i]} :
               \/ /\ Absent(id)' /\ ws'[id].close_code = NormalClosure
               \/ /\ UNCHANGED registryVars /\ ws' = ws
          /\ cleanup'.pc = "close" =>
               /\ cleanup'.inactive_connections = list
               /\ cleanup'.i > i
               /\ \A k \in (i + 1)..(cleanup'.i - 1) :
                    list[k] \notin active_connections'
          /\ cleanup'.pc = "sleep" =>
               \A k \in (i + 1)..Len(list) : list[k] \notin active_connections'
    ]_vars

\* the close of the first stale connection of a scan failed, it is still
\* registered, and the cycle awaits the close of the second
C29_Witness ==
  /\ cleanup.pc = "close" /\ cleanup.i = 2
  /\ cleanup.inactive_connections[1] \in active_connections
  /\ ws[cleanup.inactive_connections[1]].close_code = 0
  /\ cleanup.inactive_connections[2] \in active_connections

(* ----------------------- claims on duplicate ids ------------------------ *)
\* C30: registering an id that is already registered does not corrupt the
\* registry: whatever connect calls, repeated ones included, came before the
\* disconnect of an id, once the id is deregistered no session set and no
\* user set contains it, and no set of either index is empty.
C30_DuplicateRegisterSafe ==
  /\ \A id \in ConnIds \ active_connections :
       /\ id \notin DOMAIN connection_metadata
       /\ \A s \in DOMAIN session_connections : id \notin session_connections[s]
       /\ \A u \in DOMAIN user_connections : id \notin user_connections[u]
  /\ \A s \in DOMAIN session_connections : session_connections[s] # {}
  /\ \A u \in DOMAIN user_connections : user_connections[u] # {}

(* ----------------------- claims on the receive loop --------------------- *)
\* an iteration of the receive loop of c has ended with c registered: a
\* frame or a read timeout was taken up and the handler is back at the read
IterationDone(c) ==
  /\ Handled(c) /\ Registered(c)
  /\ cur[c].frame.type # "none"

\* C31: every iteration of the receive loop of a registered connection
\* attempts a send: every frame, of whatever type and well-formed or not,
\* takes the handler to a send, and so does the read timeout. When an
\* iteration has ended on a connection that is still registered, an envelope
\* of that iteration was delivered and last_activity is the time of the last
\* delivery; last_activity of a registered connection never decreases.
C31_IterationRefreshesActivity ==
  [][\A c \in ConnIds :
       /\ IterationDone(c)' =>
            /\ Emitted(c)' # << >>
            /\ ws'[c].last_send = Some(LastActivity(c)')
       /\ (pc[c] = "recv" /\ Registered(c)) =>
            /\ \A p \in FramePayloads \cup MalformedPayloads :
                 handle_message(local[c], TRUE, Frame(p, 0, FALSE)).pc = "send"
            /\ (pc'[c] # "recv" /\ cur'[c] # cur[c]) => pc'[c] = "send"
       /\ (Registered(c) /\ Registered(c)') =>
            /\ LastActivity(c)' >= LastActivity(c)
            /\ LastActivity(c)' <= now'
    ]_vars

\* the read timed out after the clock had advanced, the ping probe was
\* delivered and last_activity is the time of that delivery
C31_Witness ==
  \E c \in ConnIds :
    /\ IterationDone(c)
    /\ cur[c].frame.type = "timeout"
    /\ Emitted(c) = <<[type |-> "ping"]>>
    /\ now = MaxTime /\ LastActivity(c) = MaxTime
    /\ connection_metadata[c].connected_at = 0

\* C32: a handler takes up the next frame only from the read of its loop,
\* when the handling of the frame before it has finished, countdown
\* included: when it takes up a frame that the client sent during a
\* countdown, the capture_command of a countdown was delivered after the
\* frame was sent, or the connection is deregistered (the countdown was
\* aborted); and while a countdown is in progress no frame is taken up.
C32_FramesOneAtATime ==
  [][\A c \in ConnIds :
       /\ cur'[c] # cur[c] =>
            /\ pc[c] = "recv" /\ ~InCountdown(c)
            /\ cur'[c].mark = Len(sent[c])
            /\ (cur'[c].frame.inRun /\ Registered(c)) =>
                 \E i \in (cur'[c].frame.at + 1)..Len(sent[c]) :
                   /\ sent[c][i].type = "capture_command"
                   /\ "auto" \in DOMAIN sent[c][i]
       /\ InCountdown(c) =>
            /\ cur'[c] = cur[c]
            /\ Len(ws'[c].inbox) >= Len(ws[c].inbox)
    ]_vars

\* a stop_countdown frame sent after the first tick of a countdown has been
\* taken up, after the capture_command of that countdown
C32_Witness ==
  \E c \in ConnIds :
    /\ Registered(c)
    /\ cur[c].frame.type = "stop_countdown" /\ cur[c].frame.inRun
    /\ cur[c].frame.at > 0 /\ sent[c][cur[c].frame.at].type = "countdown_tick"
    /\ cur[c].mark > cur[c].frame.at
    /\ sent[c][cur[c].mark].type = "capture_command"

(* -------------------- claims on the manual commands --------------------- *)
\* C33: the handling of a stop_countdown frame delivers one countdown_stopped
\* envelope and nothing else, whether or not a countdown was ever started on
\* the connection; it leaves the connection registered and its socket open,
\* starts no countdown, and the countdown during which the frame arrived has
\* delivered its capture_command before.
C33_StopYieldsOneStopped ==
  \A c \in ConnIds :
    cur[c].frame.type = "stop_countdown" =>
      LET stopped == [type |-> "countdown_stopped",
                      session_id |-> local[c].session_id]
      IN /\ Emitted(c) \in {<< >>, <<stopped>>}
         /\ ~InCountdown(c)
         /\ ws[c].close_code = 0
         /\ Emitted(c) = <<stopped>> => (Handled(c) => Registered(c))
         /\ (Handled(c) /\ Registered(c)) =>
              /\ Emitted(c) = <<stopped>>
              /\ cur[c].frame.inRun =>
                   \E i \in (cur[c].frame.at + 1)..cur[c].mark :
                     /\ sent[c][i].type = "capture_command"
                     /\ "auto" \in DOMAIN sent[c][i]

\* a stop_countdown frame has been answered on a connection on which no
\* countdown was ever started
C33_Witness ==
  \E c \in ConnIds :
    /\ Handled(c) /\ Registered(c)
    /\ cur[c].frame.type = "stop_countdown"
    /\ "countdown_started" \notin Types(sent[c])
    /\ Emitted(c) = <<[type |-> "countdown_stopped", session_id |-> "s1"]>>

\* C34: the handling of a capture_ready frame delivers one capture_command
\* envelope (without "auto") and nothing else: no countdown_started and no
\* countdown_tick comes before it, so a capture_command can be delivered on
\* a connection that never ran a countdown.
C34_CaptureReadyImmediate ==
  \A c \in ConnIds :
    cur[c].frame.type = "capture_ready" =>
      LET command == [type |-> "capture_command",
                      session_id |-> local[c].session_id]
      IN /\ Emitted(c) \in {<< >>, <<command>>}
         /\ pc[c] # "sleep" /\ ~InCountdown(c)
         /\ (Handled(c) /\ Registered(c)) => Emitted(c) = <<command>>

\* a capture_command was delivered on a connection on which no countdown
\* was ever started
C34_Witness ==
  \E c \in ConnIds :
    /\ Handled(c) /\ Registered(c)
    /\ cur[c].frame.type = "capture_ready"
    /\ sent[c] = <<[type |-> "connected", connection_id |-> c, session_id |-> "s1"],
                   [type |-> "capture_command", session_id |-> "s1"]>>

\* C35: the handling of a start_countdown frame with a duration d <= 0
\* delivers countdown_started with duration d, then capture_command, and
\* nothing else: no countdown_tick, and the handler never sleeps.
C35_NonPositiveDuration ==
  \A c \in ConnIds :
    (/\ cur[c].frame.type = "start_countdown"
     /\ cur[c].frame.duration # None
     /\ cur[c].frame.duration[1] <= 0) =>
      LET started == [type |-> "countdown_started",
                      session_id |-> local[c].session_id,
                      duration |-> cur[c].frame.duration[1], auto |-> FALSE]
          command == [type |-> "capture_command",
                      session_id |-> local[c].session_id, auto |-> FALSE]
      IN /\ Emitted(c) \in {<< >>, <<started>>, <<started, command>>}
         /\ pc[c] # "sleep"
         /\ (Handled(c) /\ Registered(c)) => Emitted(c) = <<started, command>>

\* a start_countdown frame with duration -1 has been handled to the end
C35_Witness ==
  \E c \in ConnIds :
    /\ Handled(c) /\ Registered(c)
    /\ cur[c].frame.type = "start_countdown"
    /\ cur[c].frame.duration = Some(MinDuration)
    /\ Len(Emitted(c)) = 2 /\ Emitted(c)[1].duration = -1
    /\ Emitted(c)[2].type = "capture_command"

(* ------------------- the liveness scheduler, scheduled fairly ------------ *)
\* Two anonymous clients of session "s1" connect, are greeted, stay silent and
\* leave while the clock advances. The event loop resumes periodic_cleanup
\* when its sleep is over, and every awaited close returns or raises.
NextLive ==
  \/ \E c \in ConnIds : BeginConnection(c, "s1", "")
  \/ \E c \in ConnIds : Connect(c)
  \/ \E c \in ConnIds : SendOk(c)
  \/ \E c \in ConnIds : SendFail(c)
  \/ \E c \in ConnIds : ReceiveDisconnect(c)
  \/ \E c \in ConnIds : ClientClose(c)
  \/ Tick
  \/ \E T \in 1..MaxTimeoutMinutes : CleanupScan(T)
  \/ CleanupClosed
  \/ CleanupCloseFailed

SpecLive ==
  /\ Init /\ [][NextLive]_vars
  /\ WF_vars(\E T \in 1..MaxTimeoutMinutes : CleanupScan(T))
  /\ WF_vars(CleanupClosed \/ CleanupCloseFailed)

(* --------------------- two clients of one session ------------------------ *)
\* Two clients of user 1 join session "s1" and send pings, countdowns
\* of one second and images of a face that is not ready, or stay silent until
\* the read times out; every send succeeds or fails, and the clients leave.
SharedPayloads ==
  {p \in FramePayloads :
     \/ p.type = "ping"
     \/ p.type = "start_countdown" /\ p.duration = Some(1)
     \/ p.image = Some("face_far")}
NextShared ==
  \/ \E c \in ConnIds : BeginConnection(c, "s1", "sub=1")
  \/ \E c \in ConnIds : Connect(c)
  \/ \E c \in ConnIds : SendOk(c)
  \/ \E c \in ConnIds : SendFail(c)
  \/ \E c \in ConnIds : Wake(c)
  \/ \E c \in ConnIds : Receive(c)
  \/ \E c \in ConnIds : ReadTimeout(c)
  \/ \E c \in ConnIds : ReceiveDisconnect(c)
  \/ \E c \in ConnIds, p \in SharedPayloads : ClientSend(c, p)
  \/ \E c \in ConnIds : ClientClose(c)

SpecShared == Init /\ [][NextShared]_vars

(* ------------------------ claims on confidentiality --------------------- *)
\* what connection b can observe and what its handler works on
HandlerView(b) ==
  [pc |-> pc[b], local |-> local[b], sent |-> sent[b], cur |-> cur[b],
   socket |-> ws[b], registered |-> b \in active_connections]

\* C36: an envelope a handler produces goes to its own connection only.
\* Every step that delivers an envelope delivers the pending envelope of one
\* handler to that handler's connection and to no other; the envelope names
\* that connection's id or session; and a step of one connection (its client
\* sending or closing, its handler reading, sending, failing or waking) leaves
\* what any other connection of the same session and user has received, its
\* handler's position and its socket unchanged.
C36_EnvelopesStayPrivate ==
  [][\A b \in ConnIds :
       /\ sent'[b] # sent[b] =>
            /\ pc[b] = "send"
            /\ sent'[b] = Append(sent[b], local[b].message)
            /\ "connection_id" \in DOMAIN local[b].message =>
                 local[b].message.connection_id = b
            /\ "session_id" \in DOMAIN local[b].message =>
                 local[b].message.session_id = local[b].session_id
            /\ \A a \in ConnIds \ {b} : sent'[a] = sent[a]
       /\ \A a \in ConnIds \ {b} :
            HandlerView(a)' # HandlerView(a) => HandlerView(b)' = HandlerView(b)
    ]_vars

\* both connections are registered in the same session and for the same user;
\* one has received the greeting, a face_detection_result and a pong, the
\* other nothing but its greeting
C36_Witness ==
  \E a, b \in ConnIds :
    /\ a # b
    /\ "s1" \in DOMAIN session_connections /\ session_connections["s1"] = {a, b}
    /\ 1 \in DOMAIN user_connections /\ user_connections[1] = {a, b}
    /\ Len(sent[a]) = 3
    /\ sent[a][2].type = "face_detection_result" /\ sent[a][3].type = "pong"
    /\ sent[b] = <<[type |-> "connected", connection_id |-> b, session_id |-> "s1"]>>
    /\ pc[b] = "recv" /\ pc[a] = "recv"

(* --------------------------- claims on the user index -------------------- *)
\* C37: every registered connection whose metadata carries a user id, user
\* id 0 included, is a member of its user's set in user_connections, which
\* is the set send_to_user iterates.
C37_UserIdIndexed ==
  \A c \in ConnIds :
    (c \in active_connections /\ c \in DOMAIN connection_metadata) =>
      \A u \in UserIds :
        connection_metadata[c].user_id = Some(u) =>
          /\ u \in DOMAIN user_connections
          /\ c \in user_connections[u]

(* ------------------------ claims on the cleanup cycle -------------------- *)
\* C38: the cleanup task closes a connection only if it is stale at the
\* moment it is closed. Whenever the task goes on to close a connection of
\* its list (after the scan, or after the close of an earlier connection
\* returned or raised), that connection's last activity lies further back
\* than a timeout the task can have been given.
C38_ClosedOnlyIfStale ==
  [][(cleanup' # cleanup /\ cleanup'.pc = "close") =>
       \E id \in {cleanup'.inactive_connections[cleanup'.i]} :
         \E T \in 1..MaxTimeoutMinutes :
           is_inactive(connection_metadata'[id], now', T)
    ]_vars

(* -------------------- claims on the liveness scheduler ------------------- *)
\* c is registered and has been silent for longer than every timeout the
\* cleanup task can be given
Stale(c) ==
  /\ c \in active_connections /\ c \in DOMAIN connection_metadata
  /\ \A T \in 1..MaxTimeoutMinutes : is_inactive(connection_metadata[c], now, T)

\* the cleanup task awaits the close of c
Closing(c) ==
  cleanup.pc = "close" /\ cleanup.inactive_connections[cleanup.i] = c

\* C39: the liveness scheduler never stops on its own. Under fair scheduling
\* the task is again and again at the sleep between two cycles, also after
\* a close raised, and another cycle is always eventually run: a connection
\* that is stale is eventually attended to by a cycle (its close is awaited),
\* unless it stops being stale first, and this holds again after every cycle
\* whose close of it raised.
C39_CleanupRunsForever ==
  /\ []<>(cleanup.pc = "sleep")
  /\ \A c \in ConnIds : Stale(c) ~> (Closing(c) \/ ~Stale(c))

\* a cycle is closing the second stale connection of its scan after the close
\* of the first one raised: the first is still registered and stale
C39_Witness ==
  /\ cleanup.pc = "close" /\ cleanup.i = 2
  /\ Stale(cleanup.inactive_connections[1])
  /\ ws[cleanup.inactive_connections[1]].close_code = 0
  /\ Stale(cleanup.inactive_connections[2])

====
